---- MODULE Spec2Model ----
(***************************************************************************)
(* Literature multisearch: the route handler POST of the lit-multisearch   *)
(* service, its three source adapters (Crossref, arXiv, Semantic Scholar), *)
(* the identifier normalizers and dedupeAndRank; the fetch calls of the     *)
(* adapters with their timeout; POST of the PubMed single-paper route with *)
(* its E-utilities calls, buildPaper and parseAbstractsByPMID; the        *)
(* literature panel of the client (search, reset, mkGeminiContext and the  *)
(* analysis request); the synthesis handlers POST /api/ai, the             *)
(* literature-review POST and the ai-chat POST.                            *)
(*                                                                         *)
(* JavaScript strings are sequences of one-character strings, so that      *)
(* trimming, lower-casing and prefix stripping are computed character by   *)
(* character.  An absent (undefined) string field is the empty sequence:   *)
(* every place of the code that reads such a field tests its truthiness,   *)
(* which is the same for undefined and for ''.                             *)
(***************************************************************************)
EXTENDS Integers, Sequences, FiniteSets, TLC

VARIABLES
    nowYear,     \* new Date().getFullYear() of the run
    provided,    \* provider items handed to the adapters' mapping code, in arrival order
    stage,       \* position of the dedupe run: "off", "collect", "ranked", "reranked"
    result,      \* { items, top } returned by dedupeAndRank
    result2,     \* { items, top } of dedupeAndRank applied to result.items
    outcome,     \* what each provider call of the run ends with
    body,        \* the request body req.json() gave
    pc,          \* position of POST: "off", "idle", "awaiting", "done"
    settled,     \* per adapter: "idle", "pending", "fulfilled", "rejected"
    order,       \* the adapters in the order their calls completed
    passedRows,  \* the result-count value POST passed to the adapters
    rankInput,   \* the items array POST passed to dedupeAndRank
    response,    \* the response POST returned
    firstOk,     \* the first success response of the run and its completion order (history)
    clock,       \* seconds since the adapter calls of a fetch run were started
    call,        \* per adapter: where its fetch stands and what it settled with
    pm,          \* the PubMed single-paper request: position, body, calls made, response
    norm,        \* a normalizer run: the raw identifier and what the normalizer returned
    ui,          \* the literature panel of the client: its React state and its last request
    ai,          \* one request to POST /api/ai: position, backend calls made, response
    chat,        \* one request to the ai-chat POST: the body stream and the response
    lit,         \* one request to the literature-review POST: papers found and response
    medline      \* a parseAbstractsByPMID run: the MEDLINE lines read and the map built

vars == <<nowYear, provided, stage, result, result2, outcome, body, pc, settled,
          order, passedRows, rankInput, response, firstOk, clock, call, pm, norm,
          ui, ai, chat, lit, medline>>

dedupeVars == <<provided, stage, result, result2>>
routeVars == <<outcome, body, pc, settled, order, passedRows, rankInput, response, firstOk>>
fetchVars == <<clock, call>>
laterVars == <<ui, ai, chat, lit, medline>>
otherVars == <<fetchVars, pm, norm, laterVars>>

-----------------------------------------------------------------------------
(* Bounds of the model *)

MaxItems == 2
MaxRanked == 13

-----------------------------------------------------------------------------
(* Characters and strings *)

Undefined == <<>>
NoYear == 0
NoCount == -1

UpperCase == <<"A", "B", "C", "D", "E", "F", "G", "H", "I", "J", "K", "L", "M",
               "N", "O", "P", "Q", "R", "S", "T", "U", "V", "W", "X", "Y", "Z">>
LowerCase == <<"a", "b", "c", "d", "e", "f", "g", "h", "i", "j", "k", "l", "m",
               "n", "o", "p", "q", "r", "s", "t", "u", "v", "w", "x", "y", "z">>
Digits == {"0", "1", "2", "3", "4", "5", "6", "7", "8", "9"}

\* \s of a regular expression
IsSpace(c) == c \in {" ", "\t", "\n"}

\* \d
IsDigit(c) == c \in Digits

\* \w
IsWord(c) ==
    \/ \E i \in 1..26 : c = UpperCase[i] \/ c = LowerCase[i]
    \/ IsDigit(c)
    \/ c = "_"

LowerChar(c) ==
    IF \E i \in 1..26 : c = UpperCase[i]
    THEN LowerCase[CHOOSE i \in 1..26 : c = UpperCase[i]]
    ELSE c

toLowerCase(s) == [i \in 1..Len(s) |-> LowerChar(s[i])]

Truthy(s) == Len(s) > 0

Drop(s, n) == SubSeq(s, n + 1, Len(s))

StartsWith(s, p) == Len(s) >= Len(p) /\ SubSeq(s, 1, Len(p)) = p

RECURSIVE trimStart(_)
trimStart(s) ==
    IF Len(s) > 0 /\ IsSpace(s[1]) THEN trimStart(Tail(s)) ELSE s

RECURSIVE trimEnd(_)
trimEnd(s) ==
    IF Len(s) > 0 /\ IsSpace(s[Len(s)]) THEN trimEnd(SubSeq(s, 1, Len(s) - 1)) ELSE s

trim(s) == trimEnd(trimStart(s))

\* s.replace(/\s+/g, ' ')
RECURSIVE collapseSpaces(_)
collapseSpaces(s) ==
    IF Len(s) = 0 THEN <<>>
    ELSE IF IsSpace(s[1])
         THEN <<" ">> \o collapseSpaces(trimStart(s))
         ELSE <<s[1]>> \o collapseSpaces(Tail(s))

\* s.replace(/[^\w\s]/g, '')
stripPunctuation(s) == SelectSeq(s, LAMBDA c : IsWord(c) \/ IsSpace(c))

\* s.replace(/<[^>]+>/g, '')
RECURSIVE stripTags(_)
stripTags(s) ==
    IF Len(s) = 0 THEN <<>>
    ELSE IF s[1] = "<" /\ \E j \in 3..Len(s) : s[j] = ">" /\ \A k \in 2..(j - 1) : s[k] # ">"
         THEN stripTags(Drop(s, CHOOSE j \in 3..Len(s) :
                                    s[j] = ">" /\ \A k \in 2..(j - 1) : s[k] # ">"))
         ELSE <<s[1]>> \o stripTags(Tail(s))

-----------------------------------------------------------------------------
(* Identifier normalizers *)

DoiPrefixes ==
    { <<"h", "t", "t", "p", ":", "/", "/", "d", "o", "i", ".", "o", "r", "g", "/">>,
      <<"h", "t", "t", "p", "s", ":", "/", "/", "d", "o", "i", ".", "o", "r", "g", "/">>,
      <<"h", "t", "t", "p", ":", "/", "/", "d", "x", ".", "d", "o", "i", ".", "o", "r", "g", "/">>,
      <<"h", "t", "t", "p", "s", ":", "/", "/", "d", "x", ".", "d", "o", "i", ".", "o", "r", "g", "/">> }

\* d.replace(/^https?:\/\/(dx\.)?doi\.org\//, '')
stripDoiPrefix(d) ==
    IF \E p \in DoiPrefixes : StartsWith(d, p)
    THEN Drop(d, Len(CHOOSE p \in DoiPrefixes : StartsWith(d, p)))
    ELSE d

normDOI(doi) ==
    IF ~Truthy(doi) THEN Undefined
    ELSE stripDoiPrefix(toLowerCase(trim(doi)))

ArxivPrefix == <<"a", "r", "x", "i", "v", ":">>

\* the version suffix left in place
keepVersion(s) == s

\* s.replace(/v\d+$/, '')
stripVersion(s) ==
    IF \E i \in 1..(Len(s) - 1) : s[i] = "v" /\ \A k \in (i + 1)..Len(s) : IsDigit(s[k])
    THEN SubSeq(s, 1, (CHOOSE i \in 1..(Len(s) - 1) :
                           /\ s[i] = "v" /\ \A k \in (i + 1)..Len(s) : IsDigit(s[k])
                           /\ \A h \in 1..(i - 1) :
                                ~(s[h] = "v" /\ \A k \in (h + 1)..Len(s) : IsDigit(s[k]))) - 1)
    ELSE s

normArxivId(id) ==
    IF ~Truthy(id) THEN Undefined
    ELSE LET s == toLowerCase(trim(id))
             t == IF StartsWith(s, ArxivPrefix) THEN Drop(s, Len(ArxivPrefix)) ELSE s
         IN  stripVersion(t)

normTitle(t) == trim(stripPunctuation(collapseSpaces(toLowerCase(t))))

-----------------------------------------------------------------------------
(* Source adapters: the mapping of one provider item to a LitItem.          *)
(* A provider item is [source, DOI, ArXiv, title, year, abstract, cit]:     *)
(* DOI is Crossref's it.DOI or Semantic Scholar's externalIds.DOI, ArXiv is *)
(* Semantic Scholar's externalIds.ArXiv or the arXiv entry's <id> URL, cit  *)
(* is is-referenced-by-count or citationCount (NoCount when not a number).  *)
(* A LitItem keeps the fields dedupeAndRank reads, and its source.          *)

\* one entry of buildExternalIds: kept, trimmed, when it is a non-blank string
buildExternalIds(v) == IF Truthy(trim(v)) THEN trim(v) ELSE Undefined

searchCrossref(it) ==
    [ source        |-> "crossref",
      title         |-> it.title,
      year          |-> it.year,
      abstract      |-> IF Truthy(it.abstract) THEN trim(stripTags(it.abstract)) ELSE Undefined,
      doi           |-> normDOI(it.DOI),
      citationCount |-> it.cit,
      arXiv         |-> Undefined ]

ArxivAbs == <<"a", "r", "x", "i", "v", ".", "o", "r", "g", "/", "a", "b", "s", "/">>

IsIdChar(c) == IsWord(c) \/ c = "." \/ c = "-"

\* the characters of [\w.\-]+ from position i on (greedy)
RECURSIVE idRun(_, _)
idRun(s, i) ==
    IF i <= Len(s) /\ IsIdChar(s[i]) THEN <<s[i]>> \o idRun(s, i + 1) ELSE <<>>

AbsAt(s, i) ==
    /\ i + Len(ArxivAbs) <= Len(s)
    /\ SubSeq(s, i, i + Len(ArxivAbs) - 1) = ArxivAbs
    /\ IsIdChar(s[i + Len(ArxivAbs)])

\* (idUrl.match(/arxiv\.org\/abs\/([\w.\-]+)(v\d+)?/) || [])[1]
arxivAid(idUrl) ==
    IF \E i \in 1..Len(idUrl) : AbsAt(idUrl, i)
    THEN idRun(idUrl, (CHOOSE i \in 1..Len(idUrl) :
                          AbsAt(idUrl, i) /\ \A h \in 1..(i - 1) : ~AbsAt(idUrl, h))
                      + Len(ArxivAbs))
    ELSE Undefined

parseArxivAtom(e) ==
    LET idUrl   == trim(e.ArXiv)
        aid     == arxivAid(idUrl)
        arxivId == IF Truthy(normArxivId(aid)) THEN normArxivId(aid) ELSE normArxivId(idUrl)
    IN  [ source        |-> "arxiv",
          title         |-> trim(collapseSpaces(e.title)),
          year          |-> e.year,
          abstract      |-> trim(collapseSpaces(e.abstract)),
          doi           |-> Undefined,
          citationCount |-> NoCount,
          arXiv         |-> buildExternalIds(arxivId) ]

searchS2(p) ==
    [ source        |-> "s2",
      title         |-> p.title,
      year          |-> p.year,
      abstract      |-> p.abstract,
      doi           |-> normDOI(p.DOI),
      citationCount |-> p.cit,
      arXiv         |-> buildExternalIds(normArxivId(p.ArXiv)) ]

adapt(p) ==
    CASE p.source = "crossref" -> searchCrossref(p)
      [] p.source = "arxiv"    -> parseArxivAtom(p)
      [] p.source = "s2"       -> searchS2(p)

adaptAll(ps) == [i \in 1..Len(ps) |-> adapt(ps[i])]

-----------------------------------------------------------------------------
(* dedupeAndRank *)

TopN == 12

KeyDoi == <<"d", "o", "i", ":">>
KeyArxiv == <<"a", "r", "x", "i", "v", ":">>

\* makeKey with the arXiv id tried before the doi
makeKeyArxivFirst(x) ==
    LET doi   == IF Truthy(x.doi) THEN KeyDoi \o x.doi ELSE <<>>
        ax    == IF Truthy(x.arXiv) THEN KeyArxiv \o x.arXiv ELSE <<>>
        normT == normTitle(x.title)
        y     == IF x.year # NoYear THEN <<"y", ":", ToString(x.year)>> ELSE <<>>
    IN  IF Truthy(ax) THEN ax
        ELSE IF Truthy(doi) THEN doi
        ELSE <<"t", ":">> \o normT \o <<"|">> \o y

\* makeKey with the year left out of the title key
makeKeyNoYear(x) ==
    LET doi   == IF Truthy(x.doi) THEN KeyDoi \o x.doi ELSE <<>>
        ax    == IF Truthy(x.arXiv) THEN KeyArxiv \o x.arXiv ELSE <<>>
        normT == normTitle(x.title)
    IN  IF Truthy(doi) THEN doi
        ELSE IF Truthy(ax) THEN ax
        ELSE <<"t", ":">> \o normT \o <<"|">>

makeKey(x) ==
    LET doi   == IF Truthy(x.doi) THEN KeyDoi \o x.doi ELSE <<>>
        ax    == IF Truthy(x.arXiv) THEN KeyArxiv \o x.arXiv ELSE <<>>
        normT == normTitle(x.title)
        y     == IF x.year # NoYear THEN <<"y", ":", ToString(x.year)>> ELSE <<>>
    IN  IF Truthy(doi) THEN doi
        ELSE IF Truthy(ax) THEN ax
        ELSE <<"t", ":">> \o normT \o <<"|">> \o y

\* x.citationCount || 0
countOrZero(x) == IF x.citationCount = NoCount THEN 0 ELSE x.citationCount

\* a merge that fills the kept record's missing abstract from the other record
pickMerged(it, existing) ==
    LET other == IF countOrZero(it) > countOrZero(existing) THEN existing ELSE it
        kept  == IF countOrZero(it) > countOrZero(existing) THEN it ELSE existing
    IN  IF Truthy(kept.abstract) THEN kept ELSE [ kept EXCEPT !.abstract = other.abstract ]

pick(it, existing) ==
    IF countOrZero(it) > countOrZero(existing) THEN it
    ELSE IF Truthy(existing.abstract) THEN existing
    ELSE IF Truthy(it.abstract) THEN it
    ELSE existing

\* byKey is the Map as the sequence of its entries [k, v] in insertion order
HasKey(byKey, k) == \E j \in 1..Len(byKey) : byKey[j].k = k

KeyIndex(byKey, k) == CHOOSE j \in 1..Len(byKey) : byKey[j].k = k

mergeOne(byKey, it) ==
    LET k == makeKey(it)
    IN  IF ~Truthy(k) THEN byKey
        ELSE IF ~HasKey(byKey, k) THEN Append(byKey, [k |-> k, v |-> it])
        ELSE LET j == KeyIndex(byKey, k)
             IN  [byKey EXCEPT ![j].v = pick(it, byKey[j].v)]

RECURSIVE mergeFrom(_, _, _)
mergeFrom(items, i, byKey) ==
    IF i > Len(items) THEN byKey
    ELSE mergeFrom(items, i + 1, mergeOne(byKey, items[i]))

\* the loop started at the second item
mergeLoopSkipFirst(items) ==
    LET byKey == mergeFrom(items, 2, <<>>)
    IN  [j \in 1..Len(byKey) |-> byKey[j].v]

\* the loop over items, then Array.from(byKey.values())
mergeLoop(items) ==
    LET byKey == mergeFrom(items, 1, <<>>)
    IN  [j \in 1..Len(byKey) |-> byKey[j].v]

\* Math.log10(1 + c) * 1.5 in millionths, for c = 0..12
CitTable == <<0, 451545, 715682, 903090, 1048455, 1167227, 1267647, 1354635,
              1431364, 1500000, 1562089, 1618772, 1670915>>

\* the citation count left out of the score
citationsIgnored(x) == 0

\* x.citationCount ?? 0, then Math.max(0, c)
citationsOf(x) ==
    LET c == IF x.citationCount = NoCount THEN 0 ELSE x.citationCount
    IN  IF c > 0 THEN c ELSE 0

\* x.year ? nowYear - x.year : 10
ageOf(x, now) == IF x.year # NoYear THEN now - x.year ELSE 10

\* age < 2 and age < 5 in place of age <= 2 and age <= 5
recencyStrict(age) == IF age < 2 THEN 2 ELSE IF age < 5 THEN 1 ELSE 0

\* age <= 2 ? 2 : age <= 5 ? 1 : 0
recencyOf(age) == IF age <= 2 THEN 2 ELSE IF age <= 5 THEN 1 ELSE 0

\* the score of a record, in millionths
score(x, now) ==
    LET cit      == CitTable[citationsOf(x) + 1]
        recency  == recencyOf(ageOf(x, now))
        srcNudge == IF x.source = "s2" THEN 100000 ELSE 0
    IN  cit + recency * 1000000 + srcNudge

\* where Array.prototype.sort (stable) with (a, b) => b.score - a.score puts x
\* in an already sorted prefix: after every element whose score is not lower
RECURSIVE insertRanked(_, _, _)
insertRanked(sorted, x, now) ==
    IF Len(sorted) = 0 THEN <<x>>
    ELSE IF score(sorted[1], now) >= score(x, now)
         THEN <<sorted[1]>> \o insertRanked(Tail(sorted), x, now)
         ELSE <<x>> \o sorted

RECURSIVE sortRanked(_, _, _, _)
sortRanked(merged, i, sorted, now) ==
    IF i > Len(merged) THEN sorted
    ELSE sortRanked(merged, i + 1, insertRanked(sorted, merged[i], now), now)

rankAll(merged, now) == sortRanked(merged, 1, <<>>, now)

\* no slice: the whole ranked list
sliceNone(ranked, topN) == ranked

\* ranked.slice(0, topN)
sliceTop(ranked, topN) == SubSeq(ranked, 1, IF Len(ranked) < topN THEN Len(ranked) ELSE topN)

dedupeAndRank(items, now, topN) ==
    LET merged == mergeLoop(items)
    IN  [ items |-> merged, top |-> sliceTop(rankAll(merged, now), topN) ]

-----------------------------------------------------------------------------
(* Provider items of the dedupe runs *)

TitleAb == <<"A", "-", "b">>
Titles == { <<>>, TitleAb }
Years == { NoYear, 2024 }
Abstracts == { Undefined, <<"x">> }
Counts == { NoCount, 2 }
CrossrefDOI == <<"1", "/", "x">>
S2DOIs == { Undefined,
            <<"h", "t", "t", "p", "s", ":", "/", "/", "d", "o", "i", ".", "o", "r", "g", "/", "1", "/", "X">> }
S2ArXivs == { Undefined, <<"a", "r", "X", "i", "v", ":", "1", ".", "2", "v", "3">> }
ArxivIdUrls == { <<"h", "t", "t", "p", ":", "/", "/", "a", "r", "x", "i", "v", ".", "o", "r", "g",
                   "/", "a", "b", "s", "/", "1", ".", "2", "v", "1">> }
NowYears == { 2026 }

\* Crossref works without a DOI (every title and year), Crossref works with a
\* DOI, Semantic Scholar papers with and without DOI and arXiv id, arXiv entries
ProviderItems ==
    [ source : {"crossref"}, DOI : {Undefined}, ArXiv : {Undefined}, title : Titles,
      year : Years, abstract : Abstracts, cit : Counts ]
    \cup
    [ source : {"crossref"}, DOI : {CrossrefDOI}, ArXiv : {Undefined}, title : {TitleAb},
      year : {2024}, abstract : Abstracts, cit : Counts ]
    \cup
    [ source : {"s2"}, DOI : S2DOIs, ArXiv : S2ArXivs, title : {TitleAb},
      year : {2024}, abstract : Abstracts, cit : Counts ]
    \cup
    [ source : {"arxiv"}, DOI : {Undefined}, ArXiv : ArxivIdUrls, title : {TitleAb},
      year : {2024}, abstract : Abstracts, cit : {NoCount} ]

\* the provider item at position i of a long result list: a DOI of its own, the
\* source by blocks of four, the year by position (this year back to six years ago,
\* none at every eighth), the citation count free
RankCounts == { NoCount, 9 }

RankItem(i, c, now) ==
    [ source   |-> IF (i \div 4) % 2 = 0 THEN "crossref" ELSE "s2",
      DOI      |-> <<"1", "0", "/", LowerCase[i]>>,
      ArXiv    |-> Undefined,
      title    |-> TitleAb,
      year     |-> IF i % 8 = 7 THEN NoYear ELSE now - (i % 8),
      abstract |-> Undefined,
      cit      |-> c ]

NoResult == [ items |-> <<>>, top |-> <<>> ]

-----------------------------------------------------------------------------
(* The route: POST and the three adapter calls *)

\* the array given to Promise.allSettled, in its order
Sources == <<"crossref", "arxiv", "s2">>
SourceSet == { Sources[i] : i \in 1..3 }

\* a JSON value of the request body: absent, a string or a number; a number is
\* held in halves (n is twice its value), Num(k) is the integer k
Absent == [ t |-> "undefined", s |-> <<>>, n |-> 0 ]
Str(s) == [ t |-> "string", s |-> s, n |-> 0 ]
Num(k) == [ t |-> "number", s |-> <<>>, n |-> 2 * k ]
Halves(h) == [ t |-> "number", s |-> <<>>, n |-> h ]

\* a JavaScript number: NaN, or a value held in halves
NaN == [ nan |-> TRUE, twice |-> 0 ]
JsNumber(k) == [ nan |-> FALSE, twice |-> 2 * k ]
JsHalves(h) == [ nan |-> FALSE, twice |-> h ]
IsInteger(x) == ~x.nan /\ x.twice % 2 = 0

QueryValues == { Absent, Str(<<" ">>), Str(<<" ", "q", " ">>), Num(42) }
LimitValues == { Absent, Num(100), Num(0 - 3), Halves(5), Str(<<"x">>) }
Bodies == [ query : QueryValues, limit : LimitValues ]
NoBody == [ query |-> Absent, limit |-> Absent ]

\* what a provider call ends with: a rejection with the error's message, or the
\* provider's items (which the adapter maps before it fulfils)
Rejected(m) == [ ok |-> FALSE, message |-> m, value |-> <<>> ]
Fulfilled(v) == [ ok |-> TRUE, message |-> "", value |-> v ]

SampleItem(src) ==
    CASE src = "crossref" ->
           [ source |-> "crossref", DOI |-> CrossrefDOI, ArXiv |-> Undefined, title |-> TitleAb,
             year |-> 2024, abstract |-> Undefined, cit |-> 2 ]
      [] src = "arxiv" ->
           [ source |-> "arxiv", DOI |-> Undefined,
             ArXiv |-> CHOOSE u \in ArxivIdUrls : TRUE, title |-> TitleAb,
             year |-> 2024, abstract |-> <<"x">>, cit |-> NoCount ]
      [] src = "s2" ->
           [ source |-> "s2", DOI |-> CHOOSE d \in S2DOIs : Truthy(d), ArXiv |-> Undefined,
             title |-> TitleAb, year |-> 2024, abstract |-> <<"x">>, cit |-> NoCount ]

\* the message of the error a call of src is rejected with, when it has one
FailureMessage(src) ==
    CASE src = "crossref" -> "Non-JSON (HTML) response"
      [] src = "arxiv"    -> "timeout"
      [] src = "s2"       -> "[429] Too Many Requests"

Outcomes(src) ==
    { Rejected(FailureMessage(src)), Rejected(""), Fulfilled(<<>>),
      Fulfilled(<<SampleItem(src)>>) }

NoResponse ==
    [ status |-> 0, error |-> "", hasItems |-> FALSE, items |-> <<>>, top |-> <<>>,
      hasWarning |-> FALSE, warning |-> "" ]

\* json({ error }, status)
ErrorResponse(status, message) ==
    [ NoResponse EXCEPT !.status = status, !.error = message ]

\* json({ items, top }) and json({ items: [], top: [], warning })
ResultResponse(items, top) ==
    [ NoResponse EXCEPT !.status = 200, !.hasItems = TRUE, !.items = items, !.top = top ]

WarningResponse(w) ==
    [ NoResponse EXCEPT !.status = 200, !.hasItems = TRUE, !.hasWarning = TRUE, !.warning = w ]

NoFirst == [ set |-> FALSE, resp |-> NoResponse, order |-> <<>> ]

\* a provider response not yet received
NoRes == [ ok |-> FALSE, ct |-> "", body |-> "" ]

\* an adapter call that was not started
NoCall ==
    [ phase |-> "off", res |-> NoRes, message |-> "", listed |-> FALSE, n |-> 0,
      late |-> FALSE ]

FetchOff ==
    /\ clock = 0
    /\ call = [ src \in SourceSet |-> NoCall ]

\* the esummary entry {} : no field
NoSummary ==
    [ title |-> Undefined, fulljournalname |-> Undefined, source |-> Undefined,
      pubdate |-> Undefined, authors |-> <<>>, doi |-> Undefined ]

NoPaper ==
    [ pmid |-> Undefined, title |-> Undefined, journal |-> Undefined, year |-> Undefined,
      authors |-> <<>>, doi |-> Undefined, url |-> Undefined, abstract |-> Undefined ]

NoPmResponse == [ status |-> 0, error |-> <<>>, hasPaper |-> FALSE, paper |-> NoPaper ]

\* the PubMed request: where POST stands, the body, pmid and queryRaw of POST, the
\* E-utilities calls made and returned (in order), what esearch, esummary and
\* efetch gave (hits, found and s, ab), and the response
NoPm ==
    [ pc |-> "off", body |-> [ pmid |-> Absent, query |-> Absent ], pmid |-> Undefined,
      queryRaw |-> Undefined, calls |-> <<>>, hits |-> "", found |-> FALSE,
      s |-> NoSummary, ab |-> Undefined, response |-> NoPmResponse ]

\* a normalizer run: which code is run (fn), the raw identifier and the number
\* of pieces it was put together from, the identifier returned
NoNorm == [ fn |-> "off", raw |-> Undefined, pieces |-> 0, out |-> Undefined, done |-> FALSE ]

\* LitItem as mkGeminiContext reads it: cite is the length of mkCiteLine's text after
\* "#<idx+1>", pad the whitespace around the abstract, abs the trimmed abstract's length
LitItem(c, p, a) == [ cite |-> c, pad |-> p, abs |-> a ]

NoContext == [ len |-> 0, recs |-> <<>>, absLens |-> <<>> ]

NoUi == [ pc |-> "off", litTop |-> <<>>, litLoading |-> FALSE, litErr |-> "",
          analyzing |-> FALSE, analysisReady |-> FALSE, showUpgrade |-> FALSE,
          requests |-> 0, sent |-> NoContext, sentTop |-> <<>>, answer |-> "none",
          lastAssistant |-> "none", saved |-> FALSE, topBefore |-> <<>>,
          event |-> "none" ]

NoAiResponse == [ status |-> 0, error |-> "", fields |-> {}, text |-> "" ]

NoAi == [ pc |-> "off", key |-> FALSE, calls |-> 0, answer |-> "none",
          response |-> NoAiResponse ]

NoChatResponse == [ kind |-> "none", response |-> "" ]

NoChat == [ pc |-> "off", bodyUsed |-> FALSE, message |-> "", reads |-> 0, failed |-> FALSE,
            response |-> NoChatResponse ]

NoLitResponse == [ status |-> 0, error |-> "", review |-> "", papers |-> <<>>,
                   fields |-> {} ]

NoLit == [ pc |-> "off", key |-> FALSE, found |-> <<>>, calls |-> 0, searches |-> 0,
           answer |-> "none", response |-> NoLitResponse ]

NoMedline == [ pc |-> "off", lines |-> <<>>, map |-> <<>> ]

\* the client panel and the later handlers are not part of the run
LaterOff ==
    /\ ui = NoUi
    /\ ai = NoAi
    /\ chat = NoChat
    /\ lit = NoLit
    /\ medline = NoMedline

\* the fetch run, the PubMed request and the normalizer run are not part of the run
OthersOff ==
    /\ FetchOff
    /\ pm = NoPm
    /\ norm = NoNorm
    /\ LaterOff

RouteOff ==
    /\ outcome = [ src \in SourceSet |-> Rejected("") ]
    /\ body = NoBody
    /\ pc = "off"
    /\ settled = [ src \in SourceSet |-> "idle" ]
    /\ order = <<>>
    /\ passedRows = JsNumber(0)
    /\ rankInput = <<>>
    /\ response = NoResponse
    /\ firstOk = NoFirst

\* (body?.query || '').trim() throws a TypeError: the value is truthy and has no trim
queryThrows(b) == b.query.t = "number" /\ b.query.n # 0

\* (body?.query || '').trim()
queryOf(b) == IF b.query.t = "string" THEN trim(b.query.s) ELSE <<>>

\* the value of a string of decimal digits
RECURSIVE decimalValue(_)
decimalValue(s) ==
    IF Len(s) = 0 THEN 0
    ELSE decimalValue(SubSeq(s, 1, Len(s) - 1)) * 10
            + (CHOOSE d \in 0..9 : ToString(d) = s[Len(s)])

\* Number(v) of a JSON value: a number is itself; a string is 0 when blank, its
\* value when it is decimal digits, NaN otherwise
toNumber(v) ==
    CASE v.t = "number" -> JsHalves(v.n)
      [] v.t = "string" ->
           LET t == trim(v.s)
           IN  IF Len(t) = 0 THEN JsNumber(0)
               ELSE IF \A i \in 1..Len(t) : IsDigit(t[i]) THEN JsNumber(decimalValue(t))
               ELSE NaN
      [] OTHER -> NaN

\* v || 20: 20 for undefined, 0 and ''
orTwenty(v) ==
    IF \/ v.t = "undefined"
       \/ v.t = "number" /\ v.n = 0
       \/ v.t = "string" /\ ~Truthy(v.s)
    THEN Num(20) ELSE v

\* Math.max(x, lo) and Math.min(x, hi) for integers lo, hi: NaN stays NaN
mathMax(x, lo) == IF x.nan THEN NaN ELSE IF x.twice > 2 * lo THEN x ELSE JsNumber(lo)
mathMin(x, hi) == IF x.nan THEN NaN ELSE IF x.twice < 2 * hi THEN x ELSE JsNumber(hi)

\* Math.min(Math.max(Number(body?.limit || 20), 1), 50)
limitOf(b) == mathMin(mathMax(toNumber(orTwenty(b.limit)), 1), 50)

\* Promise.allSettled resolves
anySettled == \E src \in SourceSet : settled[src] \in {"fulfilled", "rejected"}

allSettled == \A src \in SourceSet : settled[src] \in {"fulfilled", "rejected"}

\* the value of a fulfilled adapter call: the mapped items
valueOf(src) ==
    IF settled[src] = "fulfilled" THEN adaptAll(outcome[src].value) ELSE <<>>

RECURSIVE collectByCompletion(_)
collectByCompletion(done) ==
    IF Len(done) = 0 THEN <<>>
    ELSE valueOf(done[1]) \o collectByCompletion(Tail(done))

\* items.push(...cr.value), items.push(...ax.value), items.push(...s2.value)
collectItems(done) == valueOf(Sources[1]) \o valueOf(Sources[2]) \o valueOf(Sources[3])

\* (x as any)?.reason?.message
reasonMessage(src) == IF settled[src] = "rejected" THEN outcome[src].message ELSE ""

\* the reasons read from the last call to the first
lastReason(fallback) ==
    IF reasonMessage(Sources[3]) # "" THEN reasonMessage(Sources[3])
    ELSE IF reasonMessage(Sources[2]) # "" THEN reasonMessage(Sources[2])
    ELSE IF reasonMessage(Sources[1]) # "" THEN reasonMessage(Sources[1])
    ELSE fallback

firstReason(fallback) ==
    IF reasonMessage(Sources[1]) # "" THEN reasonMessage(Sources[1])
    ELSE IF reasonMessage(Sources[2]) # "" THEN reasonMessage(Sources[2])
    ELSE IF reasonMessage(Sources[3]) # "" THEN reasonMessage(Sources[3])
    ELSE fallback

warningNoFallback == firstReason("")

\* cr.reason.message || ax.reason.message || s2.reason.message || 'No results'
warningOf == firstReason("No results")

InitRoute ==
    /\ nowYear \in NowYears
    /\ provided = <<>>
    /\ stage = "off"
    /\ result = NoResult
    /\ result2 = NoResult
    /\ outcome \in [ SourceSet -> UNION { Outcomes(src) : src \in SourceSet } ]
    /\ \A src \in SourceSet : outcome[src] \in Outcomes(src)
    /\ body = NoBody
    /\ pc = "idle"
    /\ settled = [ src \in SourceSet |-> "idle" ]
    /\ order = <<>>
    /\ passedRows = JsNumber(0)
    /\ rankInput = <<>>
    /\ response = NoResponse
    /\ firstOk = NoFirst
    /\ OthersOff

\* POST up to the await of Promise.allSettled
PostBegin(b) ==
    /\ pc = "idle"
    /\ body' = b
    /\ \/ /\ queryThrows(b)
          /\ response' = ErrorResponse(500, "trim is not a function")
          /\ pc' = "done"
          /\ UNCHANGED <<settled, passedRows>>
       \/ /\ ~queryThrows(b)
          /\ ~Truthy(queryOf(b))
          /\ response' = ErrorResponse(400, "Provide query")
          /\ pc' = "done"
          /\ UNCHANGED <<settled, passedRows>>
       \/ /\ ~queryThrows(b)
          /\ Truthy(queryOf(b))
          /\ settled' = [ src \in SourceSet |-> "pending" ]
          /\ passedRows' = limitOf(b)
          /\ pc' = "awaiting"
          /\ UNCHANGED response
    /\ UNCHANGED <<nowYear, otherVars, dedupeVars, outcome, order, rankInput, firstOk>>

\* one adapter call settles
AdapterSettles(src) ==
    /\ settled[src] = "pending"
    /\ settled' = [ settled EXCEPT ![src] = IF outcome[src].ok THEN "fulfilled" ELSE "rejected" ]
    /\ order' = Append(order, src)
    /\ UNCHANGED <<nowYear, otherVars, dedupeVars, outcome, body, pc, passedRows, rankInput, response, firstOk>>

\* POST from the await on
PostRespond ==
    /\ pc = "awaiting"
    /\ allSettled
    /\ LET items == collectItems(order)
           out   == dedupeAndRank(items, nowYear, TopN)
           resp  == IF Len(items) = 0 THEN WarningResponse(warningOf)
                    ELSE ResultResponse(out.items, out.top)
       IN  /\ response' = resp
           /\ rankInput' = items
           /\ firstOk' = IF firstOk.set THEN firstOk
                         ELSE [ set |-> TRUE, resp |-> resp, order |-> order ]
    /\ pc' = "done"
    /\ UNCHANGED <<nowYear, otherVars, dedupeVars, outcome, body, settled, order, passedRows>>

\* the next request to the route arrives
NextRequest ==
    /\ pc = "done"
    /\ pc' = "idle"
    /\ body' = NoBody
    /\ settled' = [ src \in SourceSet |-> "idle" ]
    /\ order' = <<>>
    /\ passedRows' = JsNumber(0)
    /\ rankInput' = <<>>
    /\ response' = NoResponse
    /\ UNCHANGED <<nowYear, otherVars, dedupeVars, outcome, firstOk>>

Next ==
    \/ \E b \in Bodies : PostBegin(b)
    \/ \E src \in SourceSet : AdapterSettles(src)
    \/ PostRespond
    \/ NextRequest

Spec == InitRoute /\ [][Next]_vars

-----------------------------------------------------------------------------
(* Dedupe runs: provider items arrive, the adapters map them, dedupeAndRank *)
(* is applied to the mapped items and then once more to its own items.      *)

InitDedupe ==
    /\ nowYear \in NowYears
    /\ provided = <<>>
    /\ stage = "collect"
    /\ result = NoResult
    /\ result2 = NoResult
    /\ RouteOff
    /\ OthersOff

ProviderReturns(p) ==
    /\ stage = "collect"
    /\ Len(provided) < MaxItems
    /\ provided' = Append(provided, p)
    /\ UNCHANGED <<nowYear, otherVars, stage, result, result2, routeVars>>

RunDedupe ==
    /\ stage = "collect"
    /\ stage' = "ranked"
    /\ result' = dedupeAndRank(adaptAll(provided), nowYear, TopN)
    /\ UNCHANGED <<nowYear, otherVars, provided, result2, routeVars>>

RunAgain ==
    /\ stage = "ranked"
    /\ stage' = "reranked"
    /\ result2' = dedupeAndRank(result.items, nowYear, TopN)
    /\ UNCHANGED <<nowYear, otherVars, provided, result, routeVars>>

NextDedupe ==
    \/ \E p \in ProviderItems : ProviderReturns(p)
    \/ RunDedupe
    \/ RunAgain

SpecDedupe == InitDedupe /\ [][NextDedupe]_vars

-----------------------------------------------------------------------------
(* Rank runs: one provider returns a long list of distinct works and        *)
(* dedupeAndRank is applied to it.                                          *)

LongListReturns(c) ==
    /\ stage = "collect"
    /\ Len(provided) < MaxRanked
    /\ provided' = Append(provided, RankItem(Len(provided) + 1, c, nowYear))
    /\ UNCHANGED <<nowYear, otherVars, stage, result, result2, routeVars>>

NextRank ==
    \/ \E c \in RankCounts : LongListReturns(c)
    \/ RunDedupe

SpecRank == InitDedupe /\ [][NextRank]_vars

-----------------------------------------------------------------------------
(* Claims about the route, under Spec *)

\* the query of the request is a string that is non-empty after trimming
QueryGiven == body.query.t = "string" /\ Truthy(trim(body.query.s))

\* the query of the request is absent, empty or whitespace
QueryEmpty ==
    \/ body.query.t = "undefined"
    \/ body.query.t = "string" /\ ~Truthy(trim(body.query.s))

Records(items) == { items[n] : n \in 1..Len(items) }

\* C1: a request with a non-empty query whose three adapter calls all failed is
\* answered with status 200, items = [], top = [] and a non-empty warning.
C1_AllFailedWarning ==
    ( /\ pc = "done"
      /\ QueryGiven
      /\ \A src \in SourceSet : settled[src] = "rejected" )
    => /\ response.status = 200
       /\ response.hasItems /\ response.items = <<>> /\ response.top = <<>>
       /\ response.hasWarning /\ response.warning # ""

\* C1 witness: all three calls failed, none with a message, and POST answered.
C1_Witness ==
    /\ pc = "done"
    /\ QueryGiven
    /\ \A src \in SourceSet : settled[src] = "rejected" /\ outcome[src].message = ""
    /\ response.status = 200

\* C2: POST answers a request it dispatched only when all three adapter calls
\* have settled, and every record of every adapter call that succeeded is in the
\* list passed to dedupeAndRank, whichever calls failed.
C2_AfterAllSettled ==
    (pc = "done" /\ response.status = 200) =>
        /\ \A src \in SourceSet : settled[src] \in {"fulfilled", "rejected"}
        /\ Len(order) = 3
        /\ \A src \in SourceSet :
              outcome[src].ok => Records(adaptAll(outcome[src].value)) \subseteq Records(rankInput)

\* C2 witness: the call that completed first failed, a later one succeeded with
\* a record, and the answer carries that record.
C2_Witness ==
    /\ pc = "done"
    /\ response.status = 200
    /\ settled[order[1]] = "rejected"
    /\ \E src \in SourceSet : settled[src] = "fulfilled" /\ Len(outcome[src].value) > 0
    /\ Len(rankInput) > 0
    /\ Len(response.items) > 0

\* C3: POST returns an error response only for an empty or whitespace query,
\* with status 400 and before any adapter is called; every request with a
\* non-empty query gets a success response with items and top.
C3_ErrorOnlyForEmptyQuery ==
    pc = "done" =>
        /\ response.status # 200 =>
              /\ QueryEmpty
              /\ response.status = 400
              /\ \A src \in SourceSet : settled[src] = "idle"
        /\ ~QueryEmpty => (response.status = 200 /\ response.hasItems)

\* C4: for the same results of the three adapter calls, the items and top of a
\* success response are those of the first success response of the run, whatever
\* the order in which the calls complete.
C4_OrderIndependent ==
    (pc = "done" /\ response.status = 200 /\ firstOk.set) =>
        /\ response.items = firstOk.resp.items
        /\ response.top = firstOk.resp.top

\* C4 witness: two requests whose calls completed in different orders, with two
\* records of one key among the results.
C4_Witness ==
    /\ pc = "done"
    /\ response.status = 200
    /\ firstOk.set
    /\ order # firstOk.order
    /\ order[1] = "s2"
    /\ firstOk.order[1] = "crossref"
    /\ Len(rankInput) > Len(response.items)
    /\ Len(response.items) > 0

-----------------------------------------------------------------------------
(* Claims about dedupeAndRank, under SpecDedupe *)

\* the LitItems the adapters made of the provider items
adapted == adaptAll(provided)

ItemsWhere(items, P(_)) == { n \in 1..Len(items) : P(items[n]) }

\* C5: two provider records whose DOIs are equal after normalization, from any
\* sources and in any letter case, are represented by exactly one record of the
\* returned items.
C5_SameDoiOneRecord ==
    stage # "collect" =>
        \A i, j \in 1..Len(provided) :
            LET d == normDOI(provided[i].DOI)
            IN  ( /\ i # j
                  /\ provided[i].source # "arxiv"
                  /\ provided[j].source # "arxiv"
                  /\ Truthy(d)
                  /\ normDOI(provided[j].DOI) = d )
                => Cardinality(ItemsWhere(result.items, LAMBDA r : r.doi = d)) = 1

\* C5 witness: a Crossref record and a Semantic Scholar record whose provider
\* DOIs differ as strings (prefix, letter case) were merged into one record.
C5_Witness ==
    /\ stage = "ranked"
    /\ \E i, j \in 1..Len(provided) :
          /\ provided[i].source = "crossref"
          /\ provided[j].source = "s2"
          /\ Truthy(provided[i].DOI)
          /\ provided[i].DOI # provided[j].DOI
          /\ normDOI(provided[i].DOI) = normDOI(provided[j].DOI)
    /\ Len(result.items) = 1

\* the representative the collision rule of C6 asks for
C6_Preferred(it, existing) ==
    IF countOrZero(it) > countOrZero(existing) THEN it
    ELSE IF countOrZero(existing) > countOrZero(it) THEN existing
    ELSE IF Truthy(it.abstract) /\ ~Truthy(existing.abstract) THEN it
    ELSE existing

\* C6: when the last input record collides with the representative of its key,
\* the record with the strictly higher citationCount is the representative
\* afterwards; on equal counts the one with an abstract; otherwise the existing.
\* (Stated for the records that have a doi, an arXiv id or a normalized title.)
C6_HigherCountWins ==
    (stage = "ranked" /\ Len(adapted) >= 2) =>
        LET n      == Len(adapted) - 1
            before == mergeLoop(SubSeq(adapted, 1, n))
            it     == adapted[n + 1]
        IN  \A j \in 1..Len(before) :
                ( /\ makeKey(before[j]) = makeKey(it)
                  /\ Truthy(it.doi) \/ Truthy(it.arXiv) \/ Truthy(normTitle(it.title)) )
                    => result.items[j] = C6_Preferred(it, before[j])

\* C7: dedupeAndRank applied to the items it returned returns the same records,
\* none dropped.
C7_Idempotent ==
    stage = "reranked" =>
        /\ Len(result2.items) = Len(result.items)
        /\ { result2.items[n] : n \in 1..Len(result2.items) }
              = { result.items[n] : n \in 1..Len(result.items) }

\* C7 witness: a run that merged two input records into one was applied again.
C7_Witness ==
    /\ stage = "reranked"
    /\ Len(provided) = MaxItems
    /\ Len(result.items) < Len(provided)
    /\ Len(result2.items) > 0

\* no doi, no arXiv id and a blank title
Blank(x) == ~Truthy(x.doi) /\ ~Truthy(x.arXiv) /\ ~Truthy(trim(x.title))

\* C8: a record with no doi, no arXiv id and a blank title is skipped: it is in
\* neither items nor top.
C8_BlankSkipped ==
    stage = "ranked" =>
        \A i \in 1..Len(adapted) :
            Blank(adapted[i]) =>
                /\ \A n \in 1..Len(result.items) : result.items[n] # adapted[i]
                /\ \A n \in 1..Len(result.top) : result.top[n] # adapted[i]

\* no doi, no arXiv id and no non-empty normalized title
Unkeyed(x) == ~Truthy(x.doi) /\ ~Truthy(x.arXiv) /\ ~Truthy(normTitle(x.title))

-----------------------------------------------------------------------------
(* Claims about the ranking, under SpecRank *)

IndexIn(items, r) == CHOOSE n \in 1..Len(items) : items[n] = r

\* a is ranked before b: a higher score, or the same score and an earlier place
\* in the merged list
RanksBefore(a, b, merged) ==
    \/ score(a, nowYear) > score(b, nowYear)
    \/ /\ score(a, nowYear) = score(b, nowYear)
       /\ IndexIn(merged, a) < IndexIn(merged, b)

\* C10: top is exactly the first min(12, n) of the n merged records in the order
\* of non-increasing score, records of equal score in their order of the merged
\* list; every record of top is a record of items.
C10_TopIsRankedPrefix ==
    stage = "ranked" =>
        LET merged == result.items
            top    == result.top
            inTop  == { top[a] : a \in 1..Len(top) }
        IN  /\ Len(top) = (IF Len(merged) < 12 THEN Len(merged) ELSE 12)
            /\ \A a \in 1..Len(top) : \E n \in 1..Len(merged) : merged[n] = top[a]
            /\ \A a, b \in 1..Len(top) : a < b => RanksBefore(top[a], top[b], merged)
            /\ \A n \in 1..Len(merged) :
                  merged[n] \notin inTop =>
                      \A a \in 1..Len(top) : RanksBefore(top[a], merged[n], merged)

\* C10 witness: 13 merged records, 12 of them in top, with a tie and a strict
\* step of the score inside top and a first record that was not merged first.
C10_Witness ==
    /\ stage = "ranked"
    /\ Len(result.items) = 13
    /\ Len(result.top) = 12
    /\ result.top[1] # result.items[1]
    /\ \E a \in 1..11 : score(result.top[a], nowYear) = score(result.top[a + 1], nowYear)
    /\ \E a \in 1..11 : score(result.top[a], nowYear) > score(result.top[a + 1], nowYear)

\* the citation count a record is scored with
CountOf(r) == IF r.citationCount = NoCount THEN 0 ELSE r.citationCount

\* C11: of two ranked records of the same source and the same year, the one with
\* the higher citation count is never placed after the other: when the other
\* is in top, it is in top too, at an earlier place.
C11_HigherCountFirst ==
    stage = "ranked" =>
        LET top   == result.top
            inTop == Records(top)
        IN  \A a, b \in Records(result.items) :
                ( /\ a.source = b.source
                  /\ a.year = b.year
                  /\ CountOf(a) > CountOf(b)
                  /\ b \in inTop )
                => /\ a \in inTop
                   /\ IndexIn(top, a) < IndexIn(top, b)

\* C11 witness: two records of top of one source and one year, the one with the
\* higher count merged after the other and ranked before it.
C11_Witness ==
    /\ stage = "ranked"
    /\ \E a, b \in Records(result.top) :
          /\ a.source = b.source
          /\ a.year = b.year
          /\ CountOf(a) > CountOf(b)
          /\ IndexIn(result.items, a) > IndexIn(result.items, b)
          /\ IndexIn(result.top, a) < IndexIn(result.top, b)

\* the recency score the year of a record stands for
RecencyByYear(r) ==
    IF r.year = NoYear THEN 0
    ELSE IF r.year >= nowYear - 2 THEN 2
    ELSE IF r.year >= nowYear - 5 THEN 1
    ELSE 0

\* C12: the recency score of a record is 2 when its year is nowYear - 2, 1 when
\* it is nowYear - 3 up to nowYear - 5, 0 when it is nowYear - 6; a record
\* without a year is scored with age 10, recency 0. Of two records of top of one
\* source and one citation count, the one whose year stands for the higher
\* recency is ranked first.
C12_RecencyBoundaries ==
    stage = "ranked" =>
        /\ \A r \in Records(result.items) :
              LET age == ageOf(r, nowYear)
              IN  /\ r.year = nowYear - 2 => recencyOf(age) = 2
                  /\ (r.year # NoYear /\ r.year <= nowYear - 3 /\ r.year >= nowYear - 5)
                        => recencyOf(age) = 1
                  /\ r.year = nowYear - 6 => recencyOf(age) = 0
                  /\ r.year = NoYear => (age = 10 /\ recencyOf(age) = 0)
        /\ \A a, b \in Records(result.top) :
              ( /\ a.source = b.source
                /\ CountOf(a) = CountOf(b)
                /\ RecencyByYear(a) > RecencyByYear(b) )
              => IndexIn(result.top, a) < IndexIn(result.top, b)

\* C12 witness: a ranked list with a record of each of the years nowYear - 2,
\* nowYear - 3, nowYear - 5 and nowYear - 6 and a record without a year.
C12_Witness ==
    /\ stage = "ranked"
    /\ \A y \in { nowYear - 2, nowYear - 3, nowYear - 5, nowYear - 6, NoYear } :
          \E r \in Records(result.items) : r.year = y
    /\ \E a, b \in Records(result.top) :
          /\ a.year = nowYear - 3
          /\ b.year = nowYear - 2
          /\ a.source = b.source
          /\ CountOf(a) = CountOf(b)

\* C13: the result-count value passed to each adapter is an integer in [1, 50],
\* and it is 20 when the request body has no limit.
C13_LimitIntegerInRange ==
    \A src \in SourceSet :
        settled[src] # "idle" =>
            /\ IsInteger(passedRows)
            /\ passedRows.twice >= 2 * 1
            /\ passedRows.twice <= 2 * 50
            /\ body.limit = Absent => passedRows = JsNumber(20)

-----------------------------------------------------------------------------
(* Fetch runs: the three adapter calls of one request, each a fetch raced    *)
(* against the timer of withTimeout and then the read of the response body.  *)
(* Time is counted in seconds.  A provider response is its status (ok), the  *)
(* kind of its content-type header and the kind of its body text:            *)
(*   "json"    a JSON document of the provider's schema with one item,       *)
(*   "html"    an HTML page (it matches /<!doctype|<html/i),                 *)
(*   "atom"    an Atom feed with one <entry>,                                *)
(*   "garbage" text that is none of these.                                   *)

\* ms = 6000 of withTimeout
TimeoutSeconds == 6

MaxClock == 8

Responses ==
    { [ ok |-> TRUE,  ct |-> "json",  body |-> "json" ],
      [ ok |-> TRUE,  ct |-> "plain", body |-> "json" ],
      [ ok |-> TRUE,  ct |-> "html",  body |-> "html" ],
      [ ok |-> TRUE,  ct |-> "xml",   body |-> "atom" ],
      [ ok |-> TRUE,  ct |-> "json",  body |-> "garbage" ],
      [ ok |-> FALSE, ct |-> "html",  body |-> "html" ] }

\* /json/i.test(ct)
ctIsJson(res) == res.ct = "json"

\* /<!doctype|<html/i.test(text)
looksHtml(text) == text = "html"

\* JSON.parse(text) returns
parsesAsJson(text) == text = "json"

\* data?.message?.items || [] and data?.data || [] : the items of the document
itemCount(text) == IF text = "json" THEN 1 ELSE 0

\* atom.split(/<entry>/g).slice(1) : the entries of the feed
entryCount(text) == IF text = "atom" THEN 1 ELSE 0

Thrown(m) == [ thrown |-> TRUE, message |-> m ]
Returned == [ thrown |-> FALSE, message |-> "" ]

\* safeFetchText after the fetch: the text, or the error of a non-ok status
safeFetchText(res) == IF ~res.ok THEN Thrown("[status] text") ELSE Returned

\* safeFetchJSON after the fetch
safeFetchJSON(res) ==
    IF ~res.ok THEN Thrown("[status] text")
    ELSE IF ~ctIsJson(res) /\ looksHtml(res.body) THEN Thrown("Non-JSON (HTML) response")
    ELSE IF parsesAsJson(res.body) THEN Returned
    ELSE Thrown("Invalid JSON")

\* what the adapter call of src settles with once the body text is read
searchSettles(src, res, late) ==
    LET got == IF src = "arxiv" THEN safeFetchText(res) ELSE safeFetchJSON(res)
        n   == IF src = "arxiv" THEN entryCount(res.body) ELSE itemCount(res.body)
    IN  IF got.thrown
        THEN [ phase |-> "rejected", res |-> res, message |-> got.message,
               listed |-> FALSE, n |-> 0, late |-> late ]
        ELSE [ phase |-> "fulfilled", res |-> res, message |-> "",
               listed |-> TRUE, n |-> n, late |-> late ]

InitFetch ==
    /\ nowYear \in NowYears
    /\ provided = <<>>
    /\ stage = "off"
    /\ result = NoResult
    /\ result2 = NoResult
    /\ RouteOff
    /\ pm = NoPm
    /\ norm = NoNorm
    /\ LaterOff
    /\ clock = 0
    /\ call = [ src \in SourceSet |-> [ NoCall EXCEPT !.phase = "fetching" ] ]

\* a second passes; the timer of a call that still awaits its fetch fires no
\* later than its deadline
Tick ==
    /\ clock < MaxClock
    /\ \A src \in SourceSet : call[src].phase = "fetching" => clock < TimeoutSeconds
    /\ clock' = clock + 1
    /\ UNCHANGED <<nowYear, dedupeVars, routeVars, laterVars, pm, norm, call>>

\* fetch resolves with the response (status and headers) and wins the race;
\* finally clears the timer, then the body is awaited
ResponseArrives(src, res) ==
    /\ call[src].phase = "fetching"
    /\ call' = [ call EXCEPT ![src] = [ @ EXCEPT !.phase = "reading", !.res = res ] ]
    /\ UNCHANGED <<nowYear, dedupeVars, routeVars, laterVars, pm, norm, clock>>

\* fetch rejects (network error) and wins the race
FetchFails(src) ==
    /\ call[src].phase = "fetching"
    /\ call' = [ call EXCEPT ![src] =
                   [ @ EXCEPT !.phase = "rejected", !.message = "fetch failed" ] ]
    /\ UNCHANGED <<nowYear, dedupeVars, routeVars, laterVars, pm, norm, clock>>

\* the timer of withTimeout fires and wins the race
TimerFires(src) ==
    /\ call[src].phase = "fetching"
    /\ clock >= TimeoutSeconds
    /\ call' = [ call EXCEPT ![src] =
                   [ @ EXCEPT !.phase = "rejected", !.message = "timeout" ] ]
    /\ UNCHANGED <<nowYear, dedupeVars, routeVars, laterVars, pm, norm, clock>>

\* res.text() resolves: the checks, the parse and the mapping run, the call settles
BodyRead(src) ==
    /\ call[src].phase = "reading"
    /\ call' = [ call EXCEPT ![src] =
                   searchSettles(src, call[src].res, clock > TimeoutSeconds) ]
    /\ UNCHANGED <<nowYear, dedupeVars, routeVars, laterVars, pm, norm, clock>>

NextFetch ==
    \/ Tick
    \/ \E src \in SourceSet, res \in Responses : ResponseArrives(src, res)
    \/ \E src \in SourceSet : FetchFails(src)
    \/ \E src \in SourceSet : TimerFires(src)
    \/ \E src \in SourceSet : BodyRead(src)

SpecFetch == InitFetch /\ [][NextFetch]_vars

-----------------------------------------------------------------------------
(* Claims about the adapters' fetch calls, under SpecFetch *)

CallSettled(src) == call[src].phase \in {"fulfilled", "rejected"}

\* C14: each adapter call settles within the timeout of being started: past the
\* deadline every call is settled, and no call settles after it, so that a
\* call whose complete response had not arrived by the deadline is rejected
\* with the timeout error and yields no records.
C14_SettlesByDeadline ==
    \A src \in SourceSet :
        /\ clock > TimeoutSeconds => CallSettled(src)
        /\ ( CallSettled(src)
             /\ (call[src].late \/ call[src].res = NoRes)
             /\ call[src].message # "fetch failed" )
           => /\ call[src].phase = "rejected"
              /\ call[src].message = "timeout"
              /\ ~call[src].listed

\* the body of the response is what the adapter of src expects
ExpectedFormat(src, text) ==
    IF src = "arxiv" THEN text = "atom" ELSE parsesAsJson(text)

\* C15: a provider response whose body is HTML or cannot be parsed as the
\* expected format makes the adapter call fail: it never yields a record list,
\* not even an empty one.
C15_BadBodyFails ==
    \A src \in SourceSet :
        ( /\ CallSettled(src)
          /\ call[src].res # NoRes
          /\ looksHtml(call[src].res.body) \/ ~ExpectedFormat(src, call[src].res.body) )
        => /\ call[src].phase = "rejected"
           /\ ~call[src].listed

-----------------------------------------------------------------------------
(* Claims about the warning of the route, under Spec *)

\* the places, in the array given to Promise.allSettled, of the calls that were
\* rejected with a non-empty message
FailedWithMessage ==
    { i \in 1..3 : ~outcome[Sources[i]].ok /\ outcome[Sources[i]].message # "" }

\* the message of the first adapter failure, in the order of the array
FirstFailureMessage ==
    LET failed == { i \in 1..3 : ~outcome[Sources[i]].ok }
    IN  outcome[Sources[CHOOSE i \in failed : \A j \in failed : i <= j]].message

\* C16 (as stated): the response carries a warning only if every adapter call
\* failed, and the warning is then the message of the first adapter failure.
C16_WarningOnlyIfAllFailed ==
    (pc = "done" /\ response.hasWarning) =>
        /\ \A src \in SourceSet : settled[src] = "rejected"
        /\ response.warning = FirstFailureMessage

\* C16 (amended): the response to a dispatched request carries a warning exactly
\* when no adapter call returned a record (each failed or returned an empty
\* list); the warning is then the first non-empty failure message in the order
\* Crossref, arXiv, Semantic Scholar, and 'No results' when there is none.
C16_WarningIffNoRecords ==
    (pc = "done" /\ response.status = 200) =>
        /\ response.hasWarning <=>
              \A src \in SourceSet : ~outcome[src].ok \/ outcome[src].value = <<>>
        /\ response.hasWarning =>
              response.warning =
                  IF FailedWithMessage = {} THEN "No results"
                  ELSE outcome[Sources[CHOOSE i \in FailedWithMessage :
                                          \A j \in FailedWithMessage : i <= j]].message

\* C16 witness: a warning although one call succeeded (with no record), the two
\* other calls rejected with different messages.
C16_Witness ==
    /\ pc = "done"
    /\ response.hasWarning
    /\ \E src \in SourceSet : settled[src] = "fulfilled"
    /\ Cardinality(FailedWithMessage) = 2

-----------------------------------------------------------------------------
(* PubMed single-paper requests: POST of the PubMed route, its three        *)
(* E-utilities calls (esearch, esummary, efetch) and buildPaper.  An        *)
(* esummary entry is [title, fulljournalname, source, pubdate, authors,     *)
(* doi]: authors are the names of s.authors, doi is the value of the first  *)
(* entry of s.articleids whose idtype is doi.                               *)

\* a JSON value is truthy: a non-empty string or a number other than 0
JsTruthy(v) ==
    \/ v.t = "string" /\ Truthy(v.s)
    \/ v.t = "number" /\ v.n # 0

\* the decimal digits of a natural number
RECURSIVE decimalString(_)
decimalString(k) ==
    IF k < 10 THEN <<ToString(k)>>
    ELSE decimalString(k \div 10) \o <<ToString(k % 10)>>

\* String(v) of a string or of a natural number
stringOf(v) == IF v.t = "string" THEN v.s ELSE decimalString(v.n \div 2)

\* body?.pmid ? String(body.pmid).trim() : ''   (and the same for query)
rawOf(v) == IF JsTruthy(v) THEN trim(stringOf(v)) ELSE <<>>

PmidValues == { Absent, Str(<<" ">>), Str(<<" ", "7", " ">>), Str(<<"9", "9">>), Num(7) }
PmQueryValues == { Absent, Str(<<" ">>), Str(<<"q">>) }
PmBodies == [ pmid : PmidValues, query : PmQueryValues ]

\* what fetchJsonGuard / fetchTextGuard of an E-utilities call ends with
EsearchResults ==
    { [ thrown |-> TRUE,  id |-> Undefined ],
      [ thrown |-> FALSE, id |-> Undefined ],
      [ thrown |-> FALSE, id |-> <<"7">> ],
      [ thrown |-> FALSE, id |-> <<"8", "8">> ] }

FullSummary ==
    [ title |-> TitleAb, fulljournalname |-> <<"J">>, source |-> <<"j">>,
      pubdate |-> <<"2", "0", "2", "0", " ", "J", "a", "n">>,
      authors |-> << <<"A">>, <<>>, <<"b">> >>,
      doi |-> <<"1", "0", ".", "1", "/", "A", "B">> ]

SparseSummary ==
    [ NoSummary EXCEPT !.source = <<"j">>, !.pubdate = <<"x", "2", "0", "2", "0">> ]

EsummaryResults ==
    { [ thrown |-> TRUE,  found |-> FALSE, entry |-> NoSummary ],
      [ thrown |-> FALSE, found |-> FALSE, entry |-> NoSummary ],
      [ thrown |-> FALSE, found |-> TRUE,  entry |-> FullSummary ],
      [ thrown |-> FALSE, found |-> TRUE,  entry |-> SparseSummary ] }

EfetchResults ==
    { [ thrown |-> TRUE,  abstract |-> Undefined ],
      [ thrown |-> FALSE, abstract |-> Undefined ],
      [ thrown |-> FALSE, abstract |-> <<"x">> ] }

\* data?.result?.[pmid] || {}
esummaryOne(r) == IF r.found THEN r.entry ELSE NoSummary

\* map[pmid] || ''
efetchAbstractOne(r) == r.abstract

\* \b(19|20)\d{2}\b matches at position i
YearAt(s, i) ==
    /\ i + 3 <= Len(s)
    /\ SubSeq(s, i, i + 1) \in { <<"1", "9">>, <<"2", "0">> }
    /\ IsDigit(s[i + 2]) /\ IsDigit(s[i + 3])
    /\ i > 1 => ~IsWord(s[i - 1])
    /\ i + 4 <= Len(s) => ~IsWord(s[i + 4])

\* s.pubdate.match(/\b(19|20)\d{2}\b/): m[0], or undefined
yearOf(pubdate) ==
    IF \E i \in 1..Len(pubdate) : YearAt(pubdate, i)
    THEN LET i == CHOOSE i \in 1..Len(pubdate) :
                      YearAt(pubdate, i) /\ \A h \in 1..(i - 1) : ~YearAt(pubdate, h)
         IN  SubSeq(pubdate, i, i + 3)
    ELSE Undefined

PubmedUrl ==
    <<"h", "t", "t", "p", "s", ":", "/", "/", "p", "u", "b", "m", "e", "d", ".",
      "n", "c", "b", "i", ".", "n", "l", "m", ".", "n", "i", "h", ".", "g", "o", "v", "/">>

buildPaper(pmid, s, abstract) ==
    LET names == SelectSeq(s.authors, Truthy)
    IN  [ pmid     |-> pmid,
          title    |-> s.title,
          journal  |-> IF Truthy(s.fulljournalname) THEN s.fulljournalname ELSE s.source,
          year     |-> yearOf(s.pubdate),
          authors  |-> SubSeq(names, 1, IF Len(names) < 20 THEN Len(names) ELSE 20),
          doi      |-> s.doi,
          url      |-> PubmedUrl \o pmid \o <<"/">>,
          abstract |-> abstract ]

\* json({ error }, status)
PmError(status, message) == [ NoPmResponse EXCEPT !.status = status, !.error = message ]

\* an entry without a title is answered as not found
paperOrNotFound(pmid, s, ab) ==
    IF Truthy(s.title)
    THEN [ NoPmResponse EXCEPT !.status = 200, !.hasPaper = TRUE, !.paper = buildPaper(pmid, s, ab) ]
    ELSE PmError(404, <<"No PubMed result">>)

\* json({ paper })
paperResponse(pmid, s, ab) ==
    [ NoPmResponse EXCEPT !.status = 200, !.hasPaper = TRUE, !.paper = buildPaper(pmid, s, ab) ]

\* the query tried before the pmid
routeQueryFirst(pmidRaw, queryRaw) ==
    IF Truthy(queryRaw) THEN "esearch"
    ELSE IF Truthy(pmidRaw) THEN "esummary"
    ELSE "400"

\* let pmid = pmidRaw; if (!pmid) { if (!queryRaw) return 400; esearch }
routeOf(pmidRaw, queryRaw) ==
    IF Truthy(pmidRaw) THEN "esummary"
    ELSE IF ~Truthy(queryRaw) THEN "400"
    ELSE "esearch"

InitPubmed ==
    /\ nowYear \in NowYears
    /\ provided = <<>>
    /\ stage = "off"
    /\ result = NoResult
    /\ result2 = NoResult
    /\ RouteOff
    /\ FetchOff
    /\ norm = NoNorm
    /\ LaterOff
    /\ pm = [ NoPm EXCEPT !.pc = "idle" ]

\* POST up to its first await of an E-utilities call
PmPost(b) ==
    /\ pm.pc = "idle"
    /\ LET pmidRaw  == rawOf(b.pmid)
           queryRaw == rawOf(b.query)
           to       == routeOf(pmidRaw, queryRaw)
       IN  pm' = IF to = "400"
                 THEN [ pm EXCEPT !.pc = "done", !.body = b, !.queryRaw = queryRaw,
                                  !.response = PmError(400, <<"Provide \"pmid\" or \"query\"">>) ]
                 ELSE [ pm EXCEPT !.pc = to, !.body = b, !.pmid = pmidRaw,
                                  !.queryRaw = queryRaw, !.calls = <<to>> ]
    /\ UNCHANGED <<nowYear, dedupeVars, routeVars, laterVars, fetchVars, norm>>

\* esearchFirstPMID settles: the catch of POST, the 404, or on to esummaryOne
EsearchReturns(r) ==
    /\ pm.pc = "esearch"
    /\ pm' = IF r.thrown
             THEN [ pm EXCEPT !.pc = "done", !.hits = "thrown",
                              !.calls = Append(@, "esearch.failed"),
                              !.response = PmError(500, <<"HTTP 500">>) ]
             ELSE IF ~Truthy(r.id)
             THEN [ pm EXCEPT !.pc = "done", !.hits = "none",
                              !.calls = Append(@, "esearch.done"),
                              !.response = PmError(404, <<"No PubMed result for: ">> \o pm.queryRaw) ]
             ELSE [ pm EXCEPT !.pc = "esummary", !.hits = "some", !.pmid = r.id,
                              !.calls = @ \o <<"esearch.done", "esummary">> ]
    /\ UNCHANGED <<nowYear, dedupeVars, routeVars, laterVars, fetchVars, norm>>

\* esummaryOne settles: the catch of POST, or on to sleep(60)
EsummaryReturns(r) ==
    /\ pm.pc = "esummary"
    /\ pm' = IF r.thrown
             THEN [ pm EXCEPT !.pc = "done", !.calls = Append(@, "esummary.failed"),
                              !.response = PmError(500, <<"HTTP 500">>) ]
             ELSE [ pm EXCEPT !.pc = "sleep", !.found = r.found, !.s = esummaryOne(r),
                              !.calls = Append(@, "esummary.done") ]
    /\ UNCHANGED <<nowYear, dedupeVars, routeVars, laterVars, fetchVars, norm>>

\* sleep(60) is over: efetchAbstractOne is called
SleepEnds ==
    /\ pm.pc = "sleep"
    /\ pm' = [ pm EXCEPT !.pc = "efetch", !.calls = Append(@, "efetch") ]
    /\ UNCHANGED <<nowYear, dedupeVars, routeVars, laterVars, fetchVars, norm>>

\* efetchAbstractOne settles: the catch of POST, or buildPaper and json({ paper })
EfetchReturns(r) ==
    /\ pm.pc = "efetch"
    /\ pm' = IF r.thrown
             THEN [ pm EXCEPT !.pc = "done", !.calls = Append(@, "efetch.failed"),
                              !.response = PmError(500, <<"HTTP 500">>) ]
             ELSE [ pm EXCEPT !.pc = "done", !.ab = efetchAbstractOne(r),
                              !.calls = Append(@, "efetch.done"),
                              !.response = paperResponse(pm.pmid, pm.s, efetchAbstractOne(r)) ]
    /\ UNCHANGED <<nowYear, dedupeVars, routeVars, laterVars, fetchVars, norm>>

NextPubmed ==
    \/ \E b \in PmBodies : PmPost(b)
    \/ \E r \in EsearchResults : EsearchReturns(r)
    \/ \E r \in EsummaryResults : EsummaryReturns(r)
    \/ SleepEnds
    \/ \E r \in EfetchResults : EfetchReturns(r)

SpecPubmed == InitPubmed /\ [][NextPubmed]_vars

-----------------------------------------------------------------------------
(* Claims about the PubMed single-paper flow, under SpecPubmed *)

\* a doi value is lowercase and carries no doi.org prefix
NormalizedDoi(d) ==
    /\ d = toLowerCase(d)
    /\ \A p \in DoiPrefixes : ~StartsWith(d, p)

ExampleDoiUrl ==
    <<"h", "t", "t", "p", "s", ":", "/", "/", "d", "o", "i", ".", "o", "r", "g", "/",
      "1", "0", ".", "1", "/", "A", "B", "C">>

\* C17: every doi value of the Crossref adapter, of the Semantic Scholar adapter
\* and of the PubMed single-paper flow is lowercase and has no http(s)://doi.org/
\* or http(s)://dx.doi.org/ prefix; normalizeDOI("https://doi.org/10.1/ABC") is
\* "10.1/abc" and an empty input gives undefined.
C17_DoiNormalized ==
    /\ pm.response.hasPaper => NormalizedDoi(pm.response.paper.doi)
    /\ \A d \in {CrossrefDOI} \cup S2DOIs : NormalizedDoi(normDOI(d))
    /\ normDOI(ExampleDoiUrl) = <<"1", "0", ".", "1", "/", "a", "b", "c">>
    /\ normDOI(<<>>) = Undefined

\* the request names a pmid (query): a string with a non-blank character, or a
\* number other than 0
Names(v) ==
    \/ v.t = "string" /\ \E i \in 1..Len(v.s) : ~IsSpace(v.s[i])
    \/ v.t = "number" /\ v.n # 0

Called(c) == \E i \in 1..Len(pm.calls) : pm.calls[i] = c

\* call a was made, and returned, before call b was made
CalledAfter(b, a) ==
    \A j \in 1..Len(pm.calls) :
        pm.calls[j] = b => \E i \in 1..(j - 1) : pm.calls[i] = a

\* C19: in a PubMed request a non-empty pmid takes priority over query and
\* esearch is never called; with neither field the response is 400 and no call
\* is made; with only a query whose esearch returns no id the response is 404
\* and neither esummary nor efetch is called; otherwise esummary is called and
\* has completed before efetch is called.
C19_PubmedFlow ==
    pm.pc # "idle" =>
        /\ Names(pm.body.pmid) =>
              /\ ~Called("esearch")
              /\ Called("esummary") /\ pm.calls[1] = "esummary"
              /\ pm.pmid = rawOf(pm.body.pmid)
        /\ (~Names(pm.body.pmid) /\ ~Names(pm.body.query)) =>
              /\ pm.pc = "done" /\ pm.response.status = 400
              /\ pm.calls = <<>>
        /\ (~Names(pm.body.pmid) /\ Names(pm.body.query)) =>
              /\ Called("esearch") /\ pm.calls[1] = "esearch"
              /\ pm.hits = "none" =>
                    /\ pm.pc = "done" /\ pm.response.status = 404
                    /\ ~Called("esummary") /\ ~Called("efetch")
              /\ pm.hits = "some" => Called("esummary") /\ CalledAfter("esummary", "esearch.done")
        /\ pm.response.status \in {400, 404} => ~Called("esummary")
        /\ CalledAfter("efetch", "esummary.done")
        /\ pm.response.status = 200 => Called("efetch.done")

\* C19 witness: a request with a blank pmid and a query whose esearch found an
\* id, answered with a paper after esummary and then efetch.
C19_Witness ==
    /\ pm.pc = "done"
    /\ pm.body.pmid = Str(<<" ">>)
    /\ Names(pm.body.query)
    /\ pm.response.status = 200
    /\ pm.calls = <<"esearch", "esearch.done", "esummary", "esummary.done", "efetch", "efetch.done">>

\* C20: a lookup by a pmid for which esummary has no entry and efetch gives no
\* abstract is answered with status 200 and a paper that holds the pmid and its
\* PubMed url, with empty or absent title, journal, year, authors, doi and
\* abstract; no error response.
C20_UnknownPmidPaper ==
    ( /\ pm.pc = "done"
      /\ Names(pm.body.pmid)
      /\ Called("esummary.done") /\ ~pm.found
      /\ Called("efetch.done") /\ ~Truthy(pm.ab) )
    => /\ pm.response.status = 200
       /\ pm.response.error = <<>>
       /\ pm.response.hasPaper
       /\ pm.response.paper =
             [ NoPaper EXCEPT !.pmid = rawOf(pm.body.pmid),
                              !.url = PubmedUrl \o rawOf(pm.body.pmid) \o <<"/">> ]

\* C20 witness: such a lookup was answered.
C20_Witness ==
    /\ pm.pc = "done"
    /\ pm.body.pmid = Num(7)
    /\ Called("esummary.done") /\ ~pm.found
    /\ Called("efetch.done") /\ ~Truthy(pm.ab)
    /\ pm.response.paper.pmid = <<"7">>

-----------------------------------------------------------------------------
(* Normalizer runs: a raw arXiv identifier is put together from pieces and   *)
(* given to normArxivId, or to the arXiv adapter as the <id> of an entry, or *)
(* to the Semantic Scholar adapter as externalIds.ArXiv.                     *)

MaxPieces == 4

AbsUrl ==
    <<"h", "t", "t", "p", ":", "/", "/", "a", "r", "x", "i", "v", ".", "o", "r", "g", "/",
      "a", "b", "s", "/">>

Pieces ==
    { <<"a", "r", "X", "i", "v", ":">>, <<"1">>, <<"2">>, <<".">>, <<"v">>, <<" ">>, AbsUrl }

NormRuns == { "normArxivId", "parseArxivAtom", "searchS2" }

\* the provider item that carries the raw identifier
RawItem(src, raw) ==
    [ source |-> src, DOI |-> Undefined, ArXiv |-> raw, title |-> TitleAb,
      year |-> NoYear, abstract |-> Undefined, cit |-> NoCount ]

\* the identifier the run gives: what normArxivId returns, or externalIds.arXiv
\* of the adapter's record
normRun(fn, raw) ==
    CASE fn = "normArxivId"    -> normArxivId(raw)
      [] fn = "parseArxivAtom" -> parseArxivAtom(RawItem("arxiv", raw)).arXiv
      [] fn = "searchS2"       -> searchS2(RawItem("s2", raw)).arXiv

InitNorm ==
    /\ nowYear \in NowYears
    /\ provided = <<>>
    /\ stage = "off"
    /\ result = NoResult
    /\ result2 = NoResult
    /\ RouteOff
    /\ FetchOff
    /\ pm = NoPm
    /\ LaterOff
    /\ norm \in { [ NoNorm EXCEPT !.fn = fn ] : fn \in NormRuns }

RawGrows(piece) ==
    /\ ~norm.done
    /\ norm.pieces < MaxPieces
    /\ norm' = [ norm EXCEPT !.raw = @ \o piece, !.pieces = @ + 1 ]
    /\ UNCHANGED <<nowYear, dedupeVars, routeVars, laterVars, fetchVars, pm>>

Normalize ==
    /\ ~norm.done
    /\ norm' = [ norm EXCEPT !.out = normRun(norm.fn, norm.raw), !.done = TRUE ]
    /\ UNCHANGED <<nowYear, dedupeVars, routeVars, laterVars, fetchVars, pm>>

NextNorm ==
    \/ \E piece \in Pieces : RawGrows(piece)
    \/ Normalize

SpecNorm == InitNorm /\ [][NextNorm]_vars

-----------------------------------------------------------------------------
(* Claims about the arXiv identifier normalizer, under SpecNorm *)

\* s ends with a version suffix vN
HasVersion(s) ==
    \E i \in 1..(Len(s) - 1) : s[i] = "v" /\ \A k \in (i + 1)..Len(s) : IsDigit(s[k])

\* an identifier without 'arxiv:' prefix and without trailing version suffix
CleanId(s) == ~StartsWith(s, ArxivPrefix) /\ ~HasVersion(s)

\* v is empty or a version suffix vN
VersionOrNone(v) ==
    \/ v = <<>>
    \/ Len(v) >= 2 /\ v[1] = "v" /\ \A k \in 2..Len(v) : IsDigit(v[k])

\* a non-empty identifier of [\w.\-] characters that has itself no 'arxiv:'
\* prefix and no version ending
PlainId(c) ==
    /\ Len(c) > 0
    /\ \A k \in 1..Len(c) : IsIdChar(c[k])
    /\ CleanId(c)

\* the plain identifiers c for which the raw identifier given to the run is,
\* trimmed and in lower case, [arxiv:] c [vN], or for the arXiv adapter
\* http://arxiv.org/abs/ c [vN]
PlainIdsOf(fn, raw) ==
    LET s     == toLowerCase(trim(raw))
        heads == IF fn = "parseArxivAtom" THEN { AbsUrl } ELSE { <<>>, ArxivPrefix }
        cuts  == { p \in (0..Len(s)) \X (0..Len(s)) :
                     /\ p[1] <= p[2]
                     /\ SubSeq(s, 1, p[1]) \in heads
                     /\ VersionOrNone(SubSeq(s, p[2] + 1, Len(s)))
                     /\ PlainId(SubSeq(s, p[1] + 1, p[2])) }
    IN  { SubSeq(s, p[1] + 1, p[2]) : p \in cuts }

ExampleArxivId ==
    <<"a", "r", "X", "i", "v", ":", "1", "2", "3", "4", ".", "5", "6", "7", "8", "v", "3">>

-----------------------------------------------------------------------------
(* The literature panel of the client: mkGeminiContext *)

\* default of mkGeminiContext's maxChars parameter
MaxChars == 12000

\* the number of characters mkGeminiContext keeps of an abstract
AbstractCap == 1500

\* the number of top records analyzeWithGemini hands to mkGeminiContext
ContextTop == 10

\* the longest top list a search hands to the panel in the model
MaxTop == 11

\* decimal digits of idx + 1 in mkCiteLine's "#<idx+1>" (lists stay below 100 records)
digitsOf(n) == IF n < 10 THEN 1 ELSE 2

\* length of abs after trim() and the cut to 1500 characters plus the ellipsis
absCut(x) == IF x.abs > AbstractCap THEN AbstractCap + 1 ELSE x.abs

\* the block pushed for items[i - 1]: header, "\nAbstract: " (11 characters) and the
\* abstract or "N/A" (3 characters)
blockOf(x, i) ==
    [ rec |-> x,
      abs |-> absCut(x),
      len |-> 1 + digitsOf(i) + x.cite + 11 + (IF absCut(x) = 0 THEN 3 ELSE absCut(x)) ]

blocksOf(items) == [ i \in 1..Len(items) |-> blockOf(items[i], i) ]

\* out after one more block, joined by "\n\n" unless out is still empty
joined(out, b) ==
    [ len |-> out.len + (IF out.len > 0 THEN 2 ELSE 0) + b.len,
      recs |-> Append(out.recs, b.rec),
      absLens |-> Append(out.absLens, b.abs) ]

\* a loop that skips a block over the budget and goes on with the next one
RECURSIVE joinSkipping(_, _, _, _)
joinSkipping(blocks, i, out, maxChars) ==
    IF i > Len(blocks) THEN out
    ELSE IF out.len + 2 + blocks[i].len > maxChars
         THEN joinSkipping(blocks, i + 1, out, maxChars)
         ELSE joinSkipping(blocks, i + 1, joined(out, blocks[i]), maxChars)

\* for (const b of blocks) { if ((out + '\n\n' + b).length > maxChars) break; ... }
RECURSIVE joinBlocks(_, _, _, _)
joinBlocks(blocks, i, out, maxChars) ==
    IF i > Len(blocks) THEN out
    ELSE IF out.len + 2 + blocks[i].len > maxChars
         THEN out
         ELSE joinBlocks(blocks, i + 1, joined(out, blocks[i]), maxChars)

mkGeminiContext(items, maxChars) == joinBlocks(blocksOf(items), 1, NoContext, maxChars)

\* the records a search can put at position i of the top list: no abstract, an abstract
\* of exactly 1500 characters with blanks around it, a long abstract, and (first place
\* only) a citation line longer than the whole budget
Short == LitItem(40, 0, 0)
Exact == LitItem(40, 2, AbstractCap)
Over == LitItem(40, 0, 4000)
Huge == LitItem(MaxChars, 0, 0)

TopItemsAt(i) ==
    (IF i % 2 = 1 THEN {Short, Over} ELSE {Exact, Over}) \cup (IF i = 1 THEN {Huge} ELSE {})

\* the search route, the dedupe run, the fetch run, the PubMed request and the normalizer
\* run are not part of the run
EarlierOff ==
    /\ nowYear \in NowYears
    /\ provided = <<>>
    /\ stage = "off"
    /\ result = NoResult
    /\ result2 = NoResult
    /\ RouteOff
    /\ FetchOff
    /\ pm = NoPm
    /\ norm = NoNorm

earlierVars == <<nowYear, dedupeVars, routeVars, fetchVars, pm, norm>>

InitContext ==
    /\ EarlierOff
    /\ ai = NoAi
    /\ chat = NoChat
    /\ lit = NoLit
    /\ medline = NoMedline
    /\ ui = [ NoUi EXCEPT !.pc = "collect" ]

\* one more record of data.top
ItemArrives(x) ==
    /\ ui.pc = "collect"
    /\ Len(ui.litTop) < MaxTop
    /\ x \in TopItemsAt(Len(ui.litTop) + 1)
    /\ ui' = [ ui EXCEPT !.litTop = Append(@, x) ]
    /\ UNCHANGED <<earlierVars, ai, chat, lit, medline>>

\* const literature_context = mkGeminiContext(litTop.slice(0, 10))
BuildContext ==
    /\ ui.pc = "collect"
    /\ ui' = [ ui EXCEPT !.pc = "built",
                         !.sent = mkGeminiContext(sliceTop(ui.litTop, ContextTop), MaxChars) ]
    /\ UNCHANGED <<earlierVars, ai, chat, lit, medline>>

NextContext == (\E x \in {Short, Exact, Over, Huge} : ItemArrives(x)) \/ BuildContext

SpecContext == InitContext /\ [][NextContext]_vars

\* C21: the context mkGeminiContext builds is never longer than the budget; every
\* abstract in it is cut to at most 1500 characters plus the ellipsis; its records are
\* the first records of the at most ten top records, in rank order, and the record
\* after them, if any, is one whose block would have gone over the budget.
C21_ContextIsPrefixInBudget ==
    ui.pc = "built" =>
        LET top == sliceTop(ui.litTop, ContextTop)
            n == Len(ui.sent.recs)
        IN /\ ui.sent.len <= MaxChars
           /\ Len(top) <= ContextTop
           /\ n <= Len(top)
           /\ \A i \in 1..n : ui.sent.recs[i] = top[i]
           /\ \A i \in 1..n : ui.sent.absLens[i] <= AbstractCap + 1
           /\ \A i \in 1..n : top[i].abs <= AbstractCap => ui.sent.absLens[i] = top[i].abs
           /\ n < Len(top) => ui.sent.len + 2 + blockOf(top[n + 1], n + 1).len > MaxChars

\* eleven top records of which the budget stops the context before the tenth, after a
\* cut abstract and with a record behind the stop that would still have fitted
C21_Witness ==
    /\ ui.pc = "built"
    /\ Len(ui.litTop) = MaxTop
    /\ Len(ui.sent.recs) \in 1..(ContextTop - 2)
    /\ \E i \in 1..Len(ui.sent.recs) : ui.sent.absLens[i] = AbstractCap + 1
    /\ \E i \in (Len(ui.sent.recs) + 2)..ContextTop :
          ui.sent.len + 2 + blockOf(ui.litTop[i], i).len <= MaxChars

-----------------------------------------------------------------------------
(* The literature panel of the client: search, reset and analysis *)

\* the most requests to /api/ai the panel sends in one run of the model
MaxRequests == 2

\* what a search can answer with: data.top of a successful search (which may be empty)
ClientTops == { <<>>, <<Short>>, <<Over, Short>> }

\* what the awaited fetch('/api/ai') and res.json() can give: a success body with text,
\* a success body whose text is empty, an error status with a JSON body { error },
\* a body that is not JSON, and a fetch that rejects
Answers == { "text", "emptyText", "errorJson", "notJson", "unreachable" }
FailedAnswers == { "errorJson", "notJson", "unreachable" }

\* a guard that lets every call through
noTopIgnored(top) == FALSE

\* !litTop.length
noTop(top) == Len(top) = 0

InitClient ==
    /\ EarlierOff
    /\ ai = NoAi
    /\ chat = NoChat
    /\ lit = NoLit
    /\ medline = NoMedline
    /\ ui = [ NoUi EXCEPT !.pc = "on" ]

\* runMultiSearch up to its await of the multisearch request (the button is disabled
\* while a search is loading)
RunMultiSearch(exceeded) ==
    /\ ui.pc = "on"
    /\ ~ui.litLoading
    /\ ui' = IF exceeded
             THEN [ ui EXCEPT !.showUpgrade = TRUE, !.event = "searchRefused" ]
             ELSE [ ui EXCEPT !.litLoading = TRUE, !.litErr = "", !.event = "searching" ]
    /\ UNCHANGED <<earlierVars, ai, chat, lit, medline>>

\* the rest of runMultiSearch: setLitTop(data.top || []), or the catch block for a
\* non-JSON or non-success answer, and the finally block
SearchReturns(ok, top) ==
    /\ ui.pc = "on"
    /\ ui.litLoading
    /\ ui' = IF ok
             THEN [ ui EXCEPT !.litTop = top, !.litLoading = FALSE, !.event = "searched" ]
             ELSE [ ui EXCEPT !.litTop = <<>>, !.litErr = "Failed search",
                              !.litLoading = FALSE, !.event = "searchFailed" ]
    /\ UNCHANGED <<earlierVars, ai, chat, lit, medline>>

\* the Reset button
ResetPanel ==
    /\ ui.pc = "on"
    /\ ui' = [ ui EXCEPT !.litTop = <<>>, !.litErr = "", !.analysisReady = FALSE,
                         !.event = "reset" ]
    /\ UNCHANGED <<earlierVars, ai, chat, lit, medline>>

\* analyzeWithGemini up to its await of fetch('/api/ai') (no second call is made while
\* one is analyzing: the button is disabled)
AnalyzeWithGemini(exceeded) ==
    /\ ui.pc = "on"
    /\ ~ui.analyzing
    /\ ui.requests < MaxRequests
    /\ ui' = IF noTop(ui.litTop)
             THEN [ ui EXCEPT !.event = "noTop" ]
             ELSE IF exceeded
             THEN [ ui EXCEPT !.showUpgrade = TRUE, !.event = "analysisRefused" ]
             ELSE [ ui EXCEPT !.analyzing = TRUE,
                              !.sent = mkGeminiContext(sliceTop(ui.litTop, ContextTop), MaxChars),
                              !.sentTop = ui.litTop,
                              !.requests = @ + 1,
                              !.event = "sent" ]
    /\ UNCHANGED <<earlierVars, ai, chat, lit, medline>>

\* the rest of analyzeWithGemini: data?.text || 'No response' is appended, saved and
\* counted whatever the status of the answer was; the catch block runs when fetch or
\* res.json() threw
AnalysisReturns(a) ==
    /\ ui.pc = "on"
    /\ ui.analyzing
    /\ ui' = IF a \in { "notJson", "unreachable" }
             THEN [ ui EXCEPT !.analyzing = FALSE, !.analysisReady = FALSE,
                              !.lastAssistant = "Failed to analyze",
                              !.saved = FALSE,
                              !.answer = a, !.topBefore = ui.litTop, !.event = "analysed" ]
             ELSE [ ui EXCEPT !.analyzing = FALSE, !.analysisReady = TRUE,
                              !.lastAssistant = IF a = "text" THEN "text" ELSE "No response",
                              !.saved = TRUE,
                              !.answer = a, !.topBefore = ui.litTop, !.event = "analysed" ]
    /\ UNCHANGED <<earlierVars, ai, chat, lit, medline>>

NextClient ==
    \/ \E exceeded \in BOOLEAN : RunMultiSearch(exceeded)
    \/ \E ok \in BOOLEAN, top \in ClientTops : SearchReturns(ok, top)
    \/ ResetPanel
    \/ \E exceeded \in BOOLEAN : AnalyzeWithGemini(exceeded)
    \/ \E a \in Answers : AnalysisReturns(a)

SpecClient == InitClient /\ [][NextClient]_vars

\* C22: analyzeWithGemini sends no request to the backend while litTop is empty, also
\* after a failed search and after a reset: every request was sent with a non-empty
\* litTop, and a call that found litTop empty left the request count as it was.
C22_NoRequestOnEmptyTop ==
    /\ ui.requests > 0 => ui.sentTop # <<>>
    /\ ui.event = "sent" => /\ ui.litTop # <<>>
                            /\ ui.sentTop = ui.litTop
                            /\ ui.analyzing
    /\ ui.event = "noTop" => /\ ui.litTop = <<>>
                             /\ ~ui.analyzing

\* analyzeWithGemini was called on the empty list a failed search left behind, after an
\* earlier request had been sent
C22_Witness ==
    /\ ui.event = "noTop"
    /\ ui.litErr # ""
    /\ ui.litTop = <<>>
    /\ ui.requests = 1
    /\ ui.answer # "none"

\* the panel's litTop is what it was before the answer to the analysis was handled
RankedResultKept == ui.event = "analysed" => ui.litTop = ui.topBefore

\* the failure reached the user as an error: the assistant message is the failure
\* message, nothing was saved or counted as an analysis, and no analysis is marked ready
FailureSurfaced ==
    /\ ui.lastAssistant = "Failed to analyze"
    /\ ~ui.saved
    /\ ~ui.analysisReady

\* C25: when the synthesis call of the client fails, the failure is surfaced to the
\* user as an error and litTop is left as it was.
C25_FailureSurfacedResultKept ==
    /\ RankedResultKept
    /\ ui.answer \in FailedAnswers => FailureSurfaced

-----------------------------------------------------------------------------
(* The synthesis handlers of the server: POST /api/ai, the literature-review POST and
   the ai-chat POST, each serving one request *)

\* what req.json() and the building of contents can meet in POST /api/ai: a body with
\* prompt, readme and recent of the expected types, a body that is not JSON, and a body
\* whose readme is not a string
AiBodies == { "good", "malformed", "badReadme" }

\* what the text-generation backend can answer a call with: candidates with text, no
\* candidates, a success status with a body that is not JSON, 401 with an error message,
\* an error status whose JSON body has no message, an error status with a body that is
\* not JSON, and no answer at all (fetch rejects)
BackendAnswers ==
    { "ok", "okNoCandidates", "okNotJson", "unauthorized", "failure", "failureNotJson",
      "unreachable" }

BackendFailures == { "unauthorized", "failure", "failureNotJson", "unreachable" }

AiError(status, message, fields) ==
    [ status |-> status, error |-> message, fields |-> fields, text |-> "" ]

AiText(text) == [ status |-> 200, error |-> "", fields |-> {"text"}, text |-> text ]

\* a handler that reads candidates from whatever the backend sent, without the test of
\* resp.ok
answerUnchecked(a) ==
    CASE a = "ok" -> AiText("text")
      [] a \in { "okNoCandidates", "unauthorized", "failure" } -> AiText("")
      [] a \in { "okNotJson", "failureNotJson" } -> AiError(500, "Unexpected token", {"error"})
      [] OTHER -> AiError(500, "fetch failed", {"error"})

\* the response of POST /api/ai after its one fetch: await resp.json(), the test of
\* resp.ok, the candidates' text, and the catch block
answerOf(a) ==
    CASE a = "ok" -> AiText("text")
      [] a = "okNoCandidates" -> AiText("")
      [] a = "unauthorized" -> AiError(401, "API key not valid", {"error", "extra"})
      [] a = "failure" -> AiError(503, "Gemini error", {"error", "extra"})
      [] a \in { "okNotJson", "failureNotJson" } -> AiError(500, "Unexpected token", {"error"})
      [] OTHER -> AiError(500, "fetch failed", {"error"})

\* a handler for which the key is optional
keyOptional(key) == FALSE

\* if (!key), if (!GEMINI_API_KEY)
keyMissing(key) == ~key

\* POST /api/ai up to its await of the backend call
AiPost(b) ==
    /\ ai.pc = "idle"
    /\ b \in AiBodies
    /\ ai' = IF b = "malformed"
             THEN [ ai EXCEPT !.pc = "done",
                              !.response = AiError(500, "Unexpected token", {"error"}) ]
             ELSE IF keyMissing(ai.key)
             THEN [ ai EXCEPT !.pc = "done",
                              !.response = AiError(500, "Missing GEMINI_API_KEY", {"error"}) ]
             ELSE IF b = "badReadme"
             THEN [ ai EXCEPT !.pc = "done",
                              !.response = AiError(500, "readme.slice is not a function", {"error"}) ]
             ELSE [ ai EXCEPT !.pc = "fetching", !.calls = @ + 1 ]
    /\ UNCHANGED <<earlierVars, ui, chat, lit, medline>>

\* the backend call of POST /api/ai settles and the handler returns
AiBackendAnswers(a) ==
    /\ ai.pc = "fetching"
    /\ a \in BackendAnswers
    /\ ai' = [ ai EXCEPT !.pc = "done", !.answer = a, !.response = answerOf(a) ]
    /\ UNCHANGED <<earlierVars, ui, chat, lit, medline>>

LitError(status, message) ==
    [ status |-> status, error |-> message, review |-> "", papers |-> <<>>,
      fields |-> {"error"} ]

LitReview(review, papers) ==
    [ status |-> 200, error |-> "", review |-> review, papers |-> papers,
      fields |-> {"review", "papers", "stats"} ]

\* what the three provider searches of the literature-review route can give together,
\* after deduplicatePapers and the sort (each search returns [] when it fails)
LitPapers == { <<>>, <<"p1">>, <<"p1", "p2">> }

\* the string analyzeWithGemini of the literature-review route returns
reviewOf(a) ==
    CASE a = "ok" -> "text"
      [] a = "okNoCandidates" -> "Analysis failed - no response from Gemini"
      [] a = "okNotJson" -> "Analysis failed: Unexpected token"
      [] a = "unreachable" -> "Analysis failed: fetch failed"
      [] OTHER -> "Analysis failed: Gemini API error"

\* the literature-review POST up to its await of the provider searches
LitPost(q) ==
    /\ lit.pc = "idle"
    /\ q \in { "", "query" }
    /\ lit' = IF q = ""
              THEN [ lit EXCEPT !.pc = "done",
                                !.response = LitError(400, "Missing query parameter") ]
              ELSE IF keyMissing(lit.key)
              THEN [ lit EXCEPT !.pc = "done",
                                !.response = LitError(500, "Missing GEMINI_API_KEY") ]
              ELSE [ lit EXCEPT !.pc = "searching", !.searches = 1 ]
    /\ UNCHANGED <<earlierVars, ui, ai, chat, medline>>

\* Promise.allSettled of the searches resolves: no paper ends the request, otherwise
\* analyzeWithGemini starts its backend call
LitSearchesSettle(papers) ==
    /\ lit.pc = "searching"
    /\ papers \in LitPapers
    /\ lit' = IF papers = <<>>
              THEN [ lit EXCEPT !.pc = "done", !.response = LitReview("No papers found", <<>>) ]
              ELSE [ lit EXCEPT !.pc = "analyzing", !.found = papers, !.calls = @ + 1 ]
    /\ UNCHANGED <<earlierVars, ui, ai, chat, medline>>

\* the backend call of analyzeWithGemini settles and POST returns review and papers
LitBackendAnswers(a) ==
    /\ lit.pc = "analyzing"
    /\ a \in BackendAnswers
    /\ lit' = [ lit EXCEPT !.pc = "done", !.answer = a,
                           !.response = LitReview(reviewOf(a), lit.found) ]
    /\ UNCHANGED <<earlierVars, ui, ai, chat, medline>>

\* what the first request.json() and the system prompt of the ai-chat POST can meet: a
\* body with message and context, a body that is not JSON, a body without context
ChatBodies == { "good", "malformed", "noContext" }

\* the messages of a request, by the keyword they hold
ChatMessages == { "method", "team", "result", "other" }

\* the canned text the catch block picks by the keywords of the message
fallbackOf(m) ==
    CASE m = "method" -> "methodology"
      [] m = "team" -> "collaboration"
      [] m = "result" -> "analysis"
      [] OTHER -> "default"

\* request.json(): the body stream of a request can be read once; a second read
\* rejects with a TypeError, and so does the read of a body that is not JSON
readJson(c, b) ==
    IF c.bodyUsed \/ b = "malformed"
    THEN [ ok |-> FALSE, message |-> "" ]
    ELSE [ ok |-> TRUE, message |-> c.message ]

\* the catch block of the ai-chat POST: it reads request.json() again; when that read
\* rejects, the error leaves the handler and no response is built
catchBlock(c, b) ==
    IF readJson(c, b).ok
    THEN [ kind |-> "json", response |-> fallbackOf(readJson(c, b).message) ]
    ELSE [ kind |-> "unhandled", response |-> "" ]

\* the ai-chat POST up to its await of chat.sendMessage
ChatPost(b, m) ==
    /\ chat.pc = "idle"
    /\ b \in ChatBodies
    /\ m \in ChatMessages
    /\ LET read == [ chat EXCEPT !.bodyUsed = TRUE, !.reads = 1, !.message = m ]
       IN chat' = IF b = "good"
                  THEN [ read EXCEPT !.pc = "sending" ]
                  ELSE [ read EXCEPT !.pc = "done", !.reads = 2,
                                     !.response = catchBlock(read, b) ]
    /\ UNCHANGED <<earlierVars, ui, ai, lit, medline>>

\* chat.sendMessage settles: the text is returned, or the catch block runs
ChatBackendAnswers(ok) ==
    /\ chat.pc = "sending"
    /\ chat' = IF ok
               THEN [ chat EXCEPT !.pc = "done",
                                  !.response = [ kind |-> "json", response |-> "text" ] ]
               ELSE [ chat EXCEPT !.pc = "done", !.failed = TRUE, !.reads = 2,
                                  !.response = catchBlock(chat, "good") ]
    /\ UNCHANGED <<earlierVars, ui, ai, lit, medline>>

\* the three handlers of one server process, which has the backend's key or has not
InitHandlers ==
    /\ EarlierOff
    /\ ui = NoUi
    /\ medline = NoMedline
    /\ \E key \in BOOLEAN :
          /\ ai = [ NoAi EXCEPT !.pc = "idle", !.key = key ]
          /\ lit = [ NoLit EXCEPT !.pc = "idle", !.key = key ]
    /\ chat = [ NoChat EXCEPT !.pc = "idle" ]

NextHandlers ==
    \/ \E b \in AiBodies : AiPost(b)
    \/ \E a \in BackendAnswers : AiBackendAnswers(a)
    \/ \E q \in { "", "query" } : LitPost(q)
    \/ \E papers \in LitPapers : LitSearchesSettle(papers)
    \/ \E a \in BackendAnswers : LitBackendAnswers(a)
    \/ \E b \in ChatBodies, m \in ChatMessages : ChatPost(b, m)
    \/ \E ok \in BOOLEAN : ChatBackendAnswers(ok)

SpecHandlers == InitHandlers /\ [][NextHandlers]_vars

\* C23: one request to POST /api/ai calls the backend at most once; when the backend is
\* unreachable, refuses the key or answers with another non-success status, the
\* response has an error status and a non-empty error field and no text field.
C23_OneCallErrorOnFailure ==
    /\ ai.calls <= 1
    /\ (ai.pc = "done" /\ ai.answer \in BackendFailures) =>
          /\ ai.calls = 1
          /\ ai.response.status >= 400
          /\ "error" \in ai.response.fields
          /\ "text" \notin ai.response.fields
          /\ ai.response.error # ""

\* the backend refused the key and the handler passed its status and message on
C23_Witness ==
    /\ ai.pc = "done"
    /\ ai.answer = "unauthorized"
    /\ ai.response.status = 401
    /\ ai.response.error = "API key not valid"
    /\ ai.calls = 1

C30_FallbackOnFailure ==
    (chat.pc = "done" /\ chat.failed) =>
        /\ chat.response.kind = "json"
        /\ chat.response.response = fallbackOf(chat.message)

-----------------------------------------------------------------------------
(* Later properties of dedupeAndRank *)

\* C26: dedupeAndRank builds no record of its own: every record of items and of top
\* is, field for field and with its source, one of the records it was given, and the
\* records it was given are what the adapters made of the provider items.
C26_OutputsAreInputs ==
    stage \in { "ranked", "reranked" } =>
        /\ Records(result.items) \subseteq Records(adapted)
        /\ Records(result.top) \subseteq Records(adapted)
        /\ stage = "reranked" =>
              /\ Records(result2.items) \subseteq Records(result.items)
              /\ Records(result2.top) \subseteq Records(result.items)

\* two different records of one key were merged: one has the higher count and no
\* abstract, the other has an abstract
C26_Witness ==
    /\ stage = "ranked"
    /\ Len(adapted) = 2
    /\ Len(result.items) = 1
    /\ adapted[1] # adapted[2]
    /\ \E i, j \in 1..2 :
          /\ countOrZero(adapted[i]) > countOrZero(adapted[j])
          /\ ~Truthy(adapted[i].abstract)
          /\ Truthy(adapted[j].abstract)
          /\ result.items[1] = adapted[i]

\* C28: two records given to dedupeAndRank with the same normalized arXiv id are
\* represented by exactly one record of items, also when one of them has a doi and the
\* other has none.
C28_SameArxivOneRecord ==
    stage # "collect" =>
        \A i, j \in 1..Len(adapted) :
            LET a == adapted[i].arXiv
            IN  ( /\ i # j
                  /\ Truthy(a)
                  /\ adapted[j].arXiv = a )
                => Cardinality(ItemsWhere(result.items, LAMBDA r : r.arXiv = a)) = 1

-----------------------------------------------------------------------------
(* normTitle applied to titles built from letters, blanks and punctuation *)

\* the pieces a title is built from; the last is a dash between two blanks
TitlePieces == { <<"A">>, <<"b">>, <<" ">>, <<"\t">>, <<"-">>, <<" ", "-", " ">> }

InitTitle ==
    /\ nowYear \in NowYears
    /\ provided = <<>>
    /\ stage = "off"
    /\ result = NoResult
    /\ result2 = NoResult
    /\ RouteOff
    /\ FetchOff
    /\ pm = NoPm
    /\ LaterOff
    /\ norm = [ NoNorm EXCEPT !.fn = "normTitle" ]

\* const normT = normTitle(x.title)
NormalizeTitle ==
    /\ norm.fn = "normTitle"
    /\ ~norm.done
    /\ norm' = [ norm EXCEPT !.out = normTitle(norm.raw), !.done = TRUE ]
    /\ UNCHANGED <<nowYear, dedupeVars, routeVars, laterVars, fetchVars, pm>>

NextTitle ==
    \/ \E piece \in TitlePieces : RawGrows(piece)
    \/ NormalizeTitle

SpecTitle == InitTitle /\ [][NextTitle]_vars

\* the title with its punctuation characters taken out
withoutPunctuation(t) == SelectSeq(t, LAMBDA c : IsWord(c) \/ IsSpace(c))

\* C29: the result of normTitle never holds two whitespace characters in a row,
\* normTitle applied to its own result gives that result again, and a title gets the
\* key component of the same title without its punctuation.
C29_TitleWhitespaceCollapsed ==
    norm.done =>
        /\ \A i \in 1..(Len(norm.out) - 1) : ~(IsSpace(norm.out[i]) /\ IsSpace(norm.out[i + 1]))
        /\ normTitle(norm.out) = norm.out
        /\ normTitle(withoutPunctuation(norm.raw)) = norm.out

-----------------------------------------------------------------------------
(* parseAbstractsByPMID over MEDLINE text, line by line *)

\* the longest MEDLINE text of the model, in lines
MaxLines == 5

\* A MEDLINE line is a field tag padded with blanks to four characters, "- " and the
\* text, or six blanks and the text (a continuation line): tag is the tag (empty on a
\* continuation line), pad the blanks between the tag and the dash, text the text; the
\* text of line n of the model is the number n, but on a PMID line it is the PMID
MedlineLine(tag, text) == [ tag |-> tag, pad |-> 4 - Len(tag), text |-> text ]

TagPMID == <<"P", "M", "I", "D">>
TagAB == <<"A", "B">>
TagFAU == <<"F", "A", "U">>
TagCRDT == <<"C", "R", "D", "T">>

Pmids == { 1, 2 }

\* /^PMID-\s+(\d+)/ and the lookahead of /\n(?=PMID- )/
isPmidLine(l) == l.tag = TagPMID /\ l.pad = 0

\* /^AB\s+-\s+/
isAbLine(l) == l.tag = TagAB /\ l.pad >= 1

\* /^ {2}/
isIndented(l) == l.tag = <<>>

\* /^[A-Z]{2,4}\s+-\s+/: two to four capitals, then at least one blank before the dash
isFieldLine(l) == Len(l.tag) \in 2..4 /\ l.pad >= 1

\* the loop over the lines of one record, from line i on: abstractLines
RECURSIVE scanLines(_, _, _, _)
scanLines(lines, i, inAB, abstractLines) ==
    IF i > Len(lines) THEN abstractLines
    ELSE IF isAbLine(lines[i])
         THEN scanLines(lines, i + 1, TRUE, Append(abstractLines, lines[i].text))
    ELSE IF inAB /\ isIndented(lines[i]) /\ ~isFieldLine(lines[i])
         THEN scanLines(lines, i + 1, inAB, Append(abstractLines, lines[i].text))
    ELSE IF inAB /\ isFieldLine(lines[i])
         THEN scanLines(lines, i + 1, FALSE, abstractLines)
    ELSE scanLines(lines, i + 1, inAB, abstractLines)

\* medlineText.split(/\n(?=PMID- )/): a new record starts at every PMID line but the
\* first line of the text; the records as pairs of first and last line
recordStarts(lines) == { i \in 1..Len(lines) : i = 1 \/ isPmidLine(lines[i]) }

recordOf(lines, s) ==
    LET later == { t \in recordStarts(lines) : t > s }
        e == IF later = {} THEN Len(lines)
             ELSE (CHOOSE t \in later : \A u \in later : t <= u) - 1
    IN  SubSeq(lines, s, e)

\* the map after the records that start at line s or later have been handled
RECURSIVE parseFrom(_, _, _)
parseFrom(lines, s, map) ==
    IF s > Len(lines) THEN map
    ELSE LET rec == recordOf(lines, s)
             abstract == scanLines(rec, 1, FALSE, <<>>)
             next == s + Len(rec)
         IN  IF isPmidLine(rec[1]) /\ abstract # <<>>
             THEN parseFrom(lines, next, [ map EXCEPT ![rec[1].text] = abstract ])
             ELSE parseFrom(lines, next, map)

\* the map of parseAbstractsByPMID; a PMID without entry has the empty abstract
parseAbstractsByPMID(lines) == parseFrom(lines, 1, [ p \in Pmids |-> <<>> ])

\* the lines a MEDLINE text of the model is made of
MedlineLines(n) ==
    { MedlineLine(TagPMID, p) : p \in Pmids }
    \cup { MedlineLine(tag, n) : tag \in { TagAB, TagFAU, TagCRDT, <<>> } }

InitMedline ==
    /\ EarlierOff
    /\ ui = NoUi
    /\ ai = NoAi
    /\ chat = NoChat
    /\ lit = NoLit
    /\ medline = [ NoMedline EXCEPT !.pc = "reading" ]

\* the text efetch returned has one more line
LineArrives(l) ==
    /\ medline.pc = "reading"
    /\ Len(medline.lines) < MaxLines
    /\ l \in MedlineLines(Len(medline.lines) + 1)
    /\ medline' = [ medline EXCEPT !.lines = Append(@, l) ]
    /\ UNCHANGED <<earlierVars, ui, ai, chat, lit>>

\* const abstracts = parseAbstractsByPMID(medlineText)
ParseAbstracts ==
    /\ medline.pc = "reading"
    /\ medline' = [ medline EXCEPT !.pc = "parsed",
                                   !.map = parseAbstractsByPMID(medline.lines) ]
    /\ UNCHANGED <<earlierVars, ui, ai, chat, lit>>

NextMedline ==
    \/ \E n \in 1..MaxLines : \E l \in MedlineLines(n) : LineArrives(l)
    \/ ParseAbstracts

SpecMedline == InitMedline /\ [][NextMedline]_vars

\* the lines of the AB fields of a record: every AB line and the continuation lines
\* that follow it with nothing but continuation lines in between
AbFieldLines(rec) ==
    { i \in 1..Len(rec) :
        \/ rec[i].tag = TagAB
        \/ /\ rec[i].tag = <<>>
           /\ \E a \in 1..(i - 1) :
                 /\ rec[a].tag = TagAB
                 /\ \A k \in (a + 1)..i : rec[k].tag = <<>> }

RECURSIVE TextsOf(_, _, _)
TextsOf(rec, i, S) ==
    IF i > Len(rec) THEN <<>>
    ELSE (IF i \in S THEN <<rec[i].text>> ELSE <<>>) \o TextsOf(rec, i + 1, S)

AbFieldText(rec) == TextsOf(rec, 1, AbFieldLines(rec))

\* the records of the text that start with the PMID line of p
RecordsOfPmid(lines, p) ==
    { s \in recordStarts(lines) : isPmidLine(lines[s]) /\ lines[s].text = p }

\* C27: parseAbstractsByPMID maps the PMID of a record to exactly the text of the
\* record's AB field, the AB line and the continuation lines directly after it; no
\* line after the line of another field is added; a record without AB field and a
\* PMID without record get no entry.
C27_AbstractIsAbField ==
    medline.pc = "parsed" =>
        \A p \in Pmids :
            LET starts == RecordsOfPmid(medline.lines, p)
            IN  /\ starts = {} => medline.map[p] = <<>>
                /\ Cardinality(starts) = 1 =>
                      medline.map[p] =
                          AbFieldText(recordOf(medline.lines, CHOOSE s \in starts : TRUE))

====
